---------------------------- MODULE Spec2Model ----------------------------
(***************************************************************************)
(* A model of the form-field classification and fill/submit decision      *)
(* engine of cursor-job-apply: ExternalFormMapper                         *)
(* (src/external_form_mapper.py) and LinkedInApplicationHandler           *)
(* (src/linkedin_application_handler.py), and of the application session  *)
(* of LinkedInJobAgent (src/linkedin_job_agent.py).                        *)
(*                                                                         *)
(* The browser driver is the environment.  A page is a sequence of        *)
(* elements in document order; every element carries its attributes, the *)
(* set of its methods that raise, and counters of what was done to it.    *)
(* Strings are TLC strings; substring tests and lower-casing are computed *)
(* character by character.                                                 *)
(***************************************************************************)
EXTENDS Integers, Sequences, FiniteSets, TLC

VARIABLES
    pc,             \* position of the running operation
    op,             \* the public operation under execution
    page,           \* the DOM: a sequence of element records
    current_url,    \* driver.current_url
    page_source,    \* driver.page_source
    post_source,    \* the markup the site shows once a submit control is clicked
    driver_raises,  \* the driver calls that raise an exception
    arg,            \* the arguments of the operation; in the form-fill
                    \* specification also the page as the operation found it
    mapped_fields,  \* the Dict map_form_fields returned
    locals,         \* local variables of the running operation
    ret,            \* boolean result of the operation
    val             \* string (or None) result of the operation

vars == <<pc, op, page, current_url, page_source, post_source, driver_raises,
          arg, mapped_fields, locals, ret, val>>

-----------------------------------------------------------------------------
(* Python values *)

\* Python's None, as returned by get_attribute for an absent attribute.
None == "<None>"

\* Python truthiness of an Optional[str].
Truthy(v) == v # None /\ v # ""

\* Python's `a or b` on Optional[str] values.
PyOr(a, b) == IF Truthy(a) THEN a ELSE b

\* Python's `sub in s` on strings.
Contains(sub, s) ==
    \E i \in 1..(Len(s) - Len(sub) + 1) : SubSeq(s, i, i + Len(sub) - 1) = sub

\* any(word in s for word in words)
ContainsAny(words, s) == \E k \in 1..Len(words) : Contains(words[k], s)

UpperToLower ==
    [c \in {"A","B","C","D","E","F","G","H","I","J","K","L","M","N","O","P","Q",
            "R","S","T","U","V","W","X","Y","Z"} |->
       CASE c = "A" -> "a" [] c = "B" -> "b" [] c = "C" -> "c" [] c = "D" -> "d"
         [] c = "E" -> "e" [] c = "F" -> "f" [] c = "G" -> "g" [] c = "H" -> "h"
         [] c = "I" -> "i" [] c = "J" -> "j" [] c = "K" -> "k" [] c = "L" -> "l"
         [] c = "M" -> "m" [] c = "N" -> "n" [] c = "O" -> "o" [] c = "P" -> "p"
         [] c = "Q" -> "q" [] c = "R" -> "r" [] c = "S" -> "s" [] c = "T" -> "t"
         [] c = "U" -> "u" [] c = "V" -> "v" [] c = "W" -> "w" [] c = "X" -> "x"
         [] c = "Y" -> "y" [] c = "Z" -> "z"]

LowerChar(c) == IF c \in DOMAIN UpperToLower THEN UpperToLower[c] ELSE c

\* str.lower()
RECURSIVE Lower(_)
Lower(s) ==
    IF Len(s) = 0 THEN ""
    ELSE LowerChar(SubSeq(s, 1, 1)) \o Lower(SubSeq(s, 2, Len(s)))

\* The texts made of at most n fragments of F, concatenated.
RECURSIVE Concats(_, _)
Concats(F, n) ==
    IF n = 0 THEN {""}
    ELSE LET shorter == Concats(F, n - 1)
         IN  shorter \cup {s \o f : s \in shorter, f \in F}

-----------------------------------------------------------------------------
(* Submission outcome classification *)

success_indicators ==
    <<"thank you", "application submitted", "application received",
      "successfully applied", "application complete", "confirmation">>

error_indicators ==
    <<"error occurred", "application failed", "please try again",
      "something went wrong", "validation error">>

\* check_submission_success with the success and the error scans swapped.
CheckSubmissionSuccessErrorsFirst(source, raises) ==
    IF "page_source" \in raises THEN FALSE
    ELSE LET page_text == Lower(source)
         IN  IF ContainsAny(error_indicators, page_text) THEN FALSE
             ELSE TRUE

\* check_submission_success answering False when the page gives no signal.
CheckSubmissionSuccessPessimistic(source, raises) ==
    IF "page_source" \in raises THEN FALSE
    ELSE LET page_text == Lower(source)
         IN  IF ContainsAny(success_indicators, page_text) THEN TRUE
             ELSE FALSE

\* check_submission_success: the value returned for the given driver state.
CheckSubmissionSuccess(source, raises) ==
    IF "page_source" \in raises THEN FALSE
    ELSE LET page_text == Lower(source)
         IN  IF ContainsAny(success_indicators, page_text) THEN TRUE
             ELSE IF ContainsAny(error_indicators, page_text) THEN FALSE
             ELSE TRUE

-----------------------------------------------------------------------------
(* Elements *)

\* A WebElement: what get_attribute, is_displayed, is_enabled and
\* Select(...).options return for it, the methods of it that raise, and what
\* has been done to it (log: the clear, send_keys, select and click calls it
\* received, in order; selected: Python index of the chosen option, at first
\* the option at index 0).
BlankElement ==
    [tag |-> "input", type |-> None, name |-> None, id |-> None,
     placeholder |-> None, value |-> None, required |-> None,
     aria_required |-> None, accept |-> None, class |-> None,
     data_test_id |-> None, data_control_name |-> None,
     aria_label |-> None, last_in |-> None, href |-> None, text |-> "",
     displayed |-> TRUE, enabled |-> TRUE,
     options |-> <<>>, selected |-> 0,
     raises |-> {}, log |-> <<>>]

-----------------------------------------------------------------------------
(* Field classifier *)

relevant_types == <<"text", "email", "tel", "number", "url">>

relevant_names ==
    <<"experience", "years", "skills", "education", "location", "salary",
      "availability">>

\* `x in list` for a list of strings.
InList(x, list) == \E k \in 1..Len(list) : list[k] = x

\* field.get_attribute("name") or field.get_attribute("id") or ""
FieldName(f) == PyOr(PyOr(f.name, f.id), "")

\* field.get_attribute("placeholder") or ""
FieldPlaceholder(f) == PyOr(f.placeholder, "")

\* should_fill_additional_field with the required test moved before the value
\* test.
ShouldFillRequiredFirst(f) ==
    IF "is_displayed" \in f.raises THEN FALSE
    ELSE IF ~f.displayed THEN FALSE
    ELSE IF "is_enabled" \in f.raises THEN FALSE
    ELSE IF ~f.enabled THEN FALSE
    ELSE IF "get_attribute" \in f.raises THEN FALSE
    ELSE IF Truthy(PyOr(f.required, f.aria_required)) THEN TRUE
    ELSE IF Truthy(f.value) THEN FALSE
    ELSE IF InList(f.type, relevant_types) THEN TRUE
    ELSE IF ContainsAny(relevant_names, Lower(FieldName(f))) THEN TRUE
    ELSE IF ContainsAny(relevant_names, Lower(FieldPlaceholder(f))) THEN TRUE
    ELSE FALSE

\* should_fill_additional_field: every exception is caught and answers False.
ShouldFillAdditionalField(f) ==
    IF "is_displayed" \in f.raises THEN FALSE
    ELSE IF ~f.displayed THEN FALSE
    ELSE IF "is_enabled" \in f.raises THEN FALSE
    ELSE IF ~f.enabled THEN FALSE
    ELSE IF "get_attribute" \in f.raises THEN FALSE
    ELSE IF Truthy(f.value) THEN FALSE
    ELSE IF Truthy(PyOr(f.required, f.aria_required)) THEN TRUE
    ELSE IF InList(f.type, relevant_types) THEN TRUE
    ELSE IF ContainsAny(relevant_names, Lower(FieldName(f))) THEN TRUE
    ELSE IF ContainsAny(relevant_names, Lower(FieldPlaceholder(f))) THEN TRUE
    ELSE FALSE

-----------------------------------------------------------------------------
(* Additional-field value resolution *)

\* get_additional_field_value with the type defaults tested before the
\* keyword rules.
GetAdditionalFieldValueTypeFirst(field_type, field_name, field_placeholder) ==
    LET field_text == Lower(field_name \o " " \o field_placeholder)
    IN  IF field_type = "text" THEN "See resume for details"
        ELSE IF field_type = "number" THEN "5"
        ELSE IF field_type = "email" THEN "john.doe@example.com"
        ELSE IF ContainsAny(<<"experience", "years">>, field_text) THEN "5"
        ELSE IF ContainsAny(<<"skills", "technologies">>, field_text)
             THEN "Python, SQL, Data Engineering, AWS, Apache Spark"
        ELSE IF ContainsAny(<<"education", "degree">>, field_text)
             THEN "Bachelor's Degree in Computer Science"
        ELSE IF ContainsAny(<<"location", "city">>, field_text) THEN "Singapore"
        ELSE IF ContainsAny(<<"salary", "compensation">>, field_text)
             THEN "Negotiable"
        ELSE IF ContainsAny(<<"availability", "start date">>, field_text)
             THEN "Immediate"
        ELSE IF ContainsAny(<<"portfolio", "github", "website">>, field_text)
             THEN "https://github.com/username"
        ELSE None

\* get_additional_field_value(field_type, field_name, field_placeholder);
\* field_name and field_placeholder are strings (the callers pass `... or ""`).
GetAdditionalFieldValue(field_type, field_name, field_placeholder) ==
    LET field_text == Lower(field_name \o " " \o field_placeholder)
    IN  IF ContainsAny(<<"experience", "years">>, field_text) THEN "5"
        ELSE IF ContainsAny(<<"skills", "technologies">>, field_text)
             THEN "Python, SQL, Data Engineering, AWS, Apache Spark"
        ELSE IF ContainsAny(<<"education", "degree">>, field_text)
             THEN "Bachelor's Degree in Computer Science"
        ELSE IF ContainsAny(<<"location", "city">>, field_text) THEN "Singapore"
        ELSE IF ContainsAny(<<"salary", "compensation">>, field_text)
             THEN "Negotiable"
        ELSE IF ContainsAny(<<"availability", "start date">>, field_text)
             THEN "Immediate"
        ELSE IF ContainsAny(<<"portfolio", "github", "website">>, field_text)
             THEN "https://github.com/username"
        ELSE IF field_type = "text" THEN "See resume for details"
        ELSE IF field_type = "number" THEN "5"
        ELSE IF field_type = "email" THEN "john.doe@example.com"
        ELSE None

-----------------------------------------------------------------------------
(* Dropdown resolution *)

select_keywords == <<"yes", "available", "immediate", "bachelor", "5+">>

\* The least member of a set of positions; 0 for the empty set.
FirstOf(S) == IF S = {} THEN 0 ELSE CHOOSE k \in S : \A j \in S : k <= j

\* The positions of the options whose lower-cased text contains a keyword.
KeywordOptions(options) ==
    {k \in 1..Len(options) : ContainsAny(select_keywords, Lower(options[k]))}

\* The element after Select.select_by_index / select_by_visible_text chose the
\* option at Python index i (0-based).
Selected(f, i) ==
    [f EXCEPT !.selected = i,
              !.log = Append(@, [m |-> "select", x |-> f.options[i + 1]])]

\* Select.select_by_visible_text(text): the first option with that text.
SelectByVisibleText(f, text) ==
    Selected(f, FirstOf({k \in 1..Len(f.options) : f.options[k] = text}) - 1)

\* fill_select_field that always takes the option at index 1.
FillSelectFieldIndexOnly(f) ==
    IF f.tag # "select" \/ "select" \in f.raises
    THEN [ret |-> FALSE, field |-> f]
    ELSE IF Len(f.options) > 1
         THEN [ret |-> TRUE, field |-> Selected(f, 1)]
         ELSE [ret |-> FALSE, field |-> f]

\* fill_select_field with the keyword scan outside the len(options) > 1 test.
FillSelectFieldScanAlways(f) ==
    IF f.tag # "select" \/ "select" \in f.raises
    THEN [ret |-> FALSE, field |-> f]
    ELSE LET options == f.options
             k == FirstOf(KeywordOptions(options))
         IN  IF k > 0
             THEN [ret |-> TRUE, field |-> SelectByVisibleText(f, options[k])]
             ELSE IF Len(options) > 1
                  THEN [ret |-> TRUE, field |-> Selected(f, 1)]
                  ELSE [ret |-> FALSE, field |-> f]

\* fill_select_field: the value returned and the element afterwards.
\* Select(field) raises for an element that is no <select>; every exception is
\* caught and answers False.
FillSelectField(f) ==
    IF f.tag # "select" \/ "select" \in f.raises
    THEN [ret |-> FALSE, field |-> f]
    ELSE LET options == f.options
         IN  IF Len(options) > 1
             THEN LET k == FirstOf(KeywordOptions(options))
                  IN  IF k > 0
                      THEN [ret |-> TRUE,
                            field |-> SelectByVisibleText(f, options[k])]
                      ELSE [ret |-> TRUE, field |-> Selected(f, 1)]
             ELSE [ret |-> FALSE, field |-> f]

-----------------------------------------------------------------------------
(* Vendor detection *)

form_indicators ==
    <<"form", "application", "apply", "submit", "upload", "resume",
      "cover letter">>

\* driver.find_elements(By.TAG_NAME, tag)
FindElementsByTag(dom, tag) ==
    SelectSeq([i \in 1..Len(dom) |-> i], LAMBDA i : dom[i].tag = tag)

\* detect_form_patterns answering true from five input elements on.
DetectFormPatternsFiveInputs(source, dom, raises) ==
    IF "page_source" \in raises \/ "find_elements" \in raises THEN FALSE
    ELSE LET page_text == Lower(source)
             form_count ==
                 Cardinality({k \in 1..Len(form_indicators) :
                                 Contains(form_indicators[k], page_text)})
             forms == FindElementsByTag(dom, "form")
             inputs == FindElementsByTag(dom, "input")
         IN  form_count >= 3 \/ Len(forms) > 0 \/ Len(inputs) >= 5

\* detect_form_patterns
DetectFormPatterns(source, dom, raises) ==
    IF "page_source" \in raises \/ "find_elements" \in raises THEN FALSE
    ELSE LET page_text == Lower(source)
             form_count ==
                 Cardinality({k \in 1..Len(form_indicators) :
                                 Contains(form_indicators[k], page_text)})
             forms == FindElementsByTag(dom, "form")
             inputs == FindElementsByTag(dom, "input")
         IN  form_count >= 3 \/ Len(forms) > 0 \/ Len(inputs) > 5

\* The first vendor of the if/elif chain whose name occurs in text; None when
\* none does.
VendorIn(text) ==
    IF Contains("workday", text) THEN "workday"
    ELSE IF Contains("lever", text) THEN "lever"
    ELSE IF Contains("greenhouse", text) THEN "greenhouse"
    ELSE IF Contains("bamboo", text) THEN "bamboo"
    ELSE None

\* detect_application_system scanning the page markup before the URL.
DetectApplicationSystemMarkupFirst(url, source, dom, raises) ==
    IF "current_url" \in raises \/ "page_source" \in raises THEN "unknown"
    ELSE LET cur == Lower(url)
             src == Lower(source)
         IN  IF VendorIn(src) # None THEN VendorIn(src)
             ELSE IF VendorIn(cur) # None THEN VendorIn(cur)
             ELSE IF DetectFormPatterns(source, dom, raises) THEN "generic"
             ELSE "unknown"

\* What an operation leaves behind when an exception escapes it.
Raised == "<raised>"

\* detect_application_system without its except clause.
DetectApplicationSystemUncaught(url, source, dom, raises) ==
    IF "current_url" \in raises \/ "page_source" \in raises THEN Raised
    ELSE LET cur == Lower(url)
             src == Lower(source)
         IN  IF VendorIn(cur) # None THEN VendorIn(cur)
             ELSE IF VendorIn(src) # None THEN VendorIn(src)
             ELSE IF DetectFormPatterns(source, dom, raises) THEN "generic"
             ELSE "unknown"

\* detect_application_system
DetectApplicationSystem(url, source, dom, raises) ==
    IF "current_url" \in raises \/ "page_source" \in raises THEN "unknown"
    ELSE LET cur == Lower(url)
             src == Lower(source)
         IN  IF VendorIn(cur) # None THEN VendorIn(cur)
             ELSE IF VendorIn(src) # None THEN VendorIn(src)
             ELSE IF DetectFormPatterns(source, dom, raises) THEN "generic"
             ELSE "unknown"

-----------------------------------------------------------------------------
(* CSS selectors and the driver's lookups *)

\* A selector "tag[attr rel v]": rel is "eq" ([attr="v"]), "sub" ([attr*="v"]),
\* "last_in" (".v tag:last-child": the tag that ends the container of class v),
\* "any" (the bare tag) or "invalid" (jQuery's :contains, which a browser rejects).  tag "*" is any.
Css(tag, attr, rel, v) == [tag |-> tag, attr |-> attr, rel |-> rel, v |-> v]

\* Whether element e matches the valid selector sel.
Matches(sel, e) ==
    /\ sel.tag \in {"*", e.tag}
    /\ CASE sel.rel = "eq" -> e[sel.attr] = sel.v
         [] sel.rel = "sub" -> e[sel.attr] # None /\ Contains(sel.v, e[sel.attr])
         [] sel.rel = "last_in" -> e.last_in = sel.v
         [] sel.rel = "any" -> TRUE
         [] OTHER -> FALSE

\* The positions, in document order, of the elements of dom matching sel.
MatchesIn(sel, dom) ==
    SelectSeq([i \in 1..Len(dom) |-> i], LAMBDA i : Matches(sel, dom[i]))

\* driver.find_elements(By.CSS_SELECTOR, sel): [ok, found]; ok is FALSE when
\* the call raises (a failing driver or a selector the browser rejects).
FindElements(sel, dom, raises) ==
    IF "find_elements" \in raises \/ sel.rel = "invalid"
    THEN [ok |-> FALSE, found |-> <<>>]
    ELSE [ok |-> TRUE, found |-> MatchesIn(sel, dom)]

\* driver.find_element(By.CSS_SELECTOR, sel): [outcome, found]; outcome is
\* "found", "none" (NoSuchElementException) or "error" (any other exception).
FindElement(sel, dom, raises) ==
    IF "find_element" \in raises \/ sel.rel = "invalid"
    THEN [outcome |-> "error", found |-> 0]
    ELSE IF MatchesIn(sel, dom) = <<>>
    THEN [outcome |-> "none", found |-> 0]
    ELSE [outcome |-> "found", found |-> MatchesIn(sel, dom)[1]]

-----------------------------------------------------------------------------
(* Vendor signature table and field locator *)

GenericSelectors ==
    [name_fields |-> <<Css("input", "name", "sub", "name"),
                       Css("input", "id", "sub", "name"),
                       Css("input", "placeholder", "sub", "name")>>,
     email_fields |-> <<Css("input", "type", "eq", "email"),
                        Css("input", "name", "sub", "email"),
                        Css("input", "placeholder", "sub", "email")>>,
     phone_fields |-> <<Css("input", "type", "eq", "tel"),
                        Css("input", "name", "sub", "phone"),
                        Css("input", "placeholder", "sub", "phone")>>,
     resume_upload |-> <<Css("input", "type", "eq", "file"),
                         Css("input", "accept", "sub", ".pdf"),
                         Css("input", "accept", "sub", ".doc")>>,
     submit_button |-> <<Css("button", "type", "eq", "submit"),
                         Css("input", "type", "eq", "submit"),
                         Css("button", ":contains", "invalid", "Submit")>>]

WorkdaySelectors ==
    [name_fields |-> <<Css("input", "name", "sub", "name"),
                       Css("input", "id", "sub", "name")>>,
     email_fields |-> <<Css("input", "type", "eq", "email"),
                        Css("input", "name", "sub", "email")>>,
     phone_fields |-> <<Css("input", "type", "eq", "tel"),
                        Css("input", "name", "sub", "phone")>>,
     resume_upload |-> <<Css("input", "type", "eq", "file"),
                         Css("input", "accept", "sub", ".pdf")>>,
     submit_button |-> <<Css("button", "type", "eq", "submit"),
                         Css("input", "type", "eq", "submit")>>]

\* The selectors lever, greenhouse and bamboo share.
LeverSelectors ==
    [name_fields |-> <<Css("input", "name", "eq", "name"),
                       Css("input", "name", "eq", "full_name")>>,
     email_fields |-> <<Css("input", "name", "eq", "email"),
                        Css("input", "type", "eq", "email")>>,
     phone_fields |-> <<Css("input", "name", "eq", "phone"),
                        Css("input", "type", "eq", "tel")>>,
     resume_upload |-> <<Css("input", "type", "eq", "file"),
                         Css("input", "accept", "sub", ".pdf")>>,
     submit_button |-> <<Css("button", "type", "eq", "submit"),
                         Css("input", "type", "eq", "submit")>>]

\* load_form_patterns: the 'selectors' entry of each vendor.
form_patterns ==
    [workday |-> WorkdaySelectors, lever |-> LeverSelectors,
     greenhouse |-> LeverSelectors, bamboo |-> LeverSelectors,
     generic |-> GenericSelectors]

\* The matches of one selector kept for being visible, enabled or not.
KeepVisible(found, dom) == SelectSeq(found, LAMBDA i : dom[i].displayed)

\* The matches of one selector, none of them kept when a check of one of them
\* raises.
KeepVisibleEnabledOrNothing(found, dom) ==
    IF \E k \in 1..Len(found) :
          \/ "is_displayed" \in dom[found[k]].raises
          \/ dom[found[k]].displayed /\ "is_enabled" \in dom[found[k]].raises
    THEN <<>>
    ELSE SelectSeq(found, LAMBDA i : dom[i].displayed /\ dom[i].enabled)

\* The matches of one selector that find_fields_by_selectors appends before
\* the scan of that selector ends (at its last match, or at the first match
\* whose is_displayed / is_enabled raises).
RECURSIVE KeepVisibleEnabled(_, _)
KeepVisibleEnabled(found, dom) ==
    IF found = <<>> THEN <<>>
    ELSE LET e == dom[Head(found)]
         IN  IF "is_displayed" \in e.raises THEN <<>>
             ELSE IF ~e.displayed
             THEN KeepVisibleEnabled(Tail(found), dom)
             ELSE IF "is_enabled" \in e.raises THEN <<>>
             ELSE IF ~e.enabled
             THEN KeepVisibleEnabled(Tail(found), dom)
             ELSE <<Head(found)>> \o KeepVisibleEnabled(Tail(found), dom)

\* find_fields_by_selectors: positions of the controls collected, in order.
RECURSIVE FindFieldsBySelectors(_, _, _)
FindFieldsBySelectors(selectors, dom, raises) ==
    IF selectors = <<>> THEN <<>>
    ELSE LET r == FindElements(Head(selectors), dom, raises)
             here == IF r.ok THEN KeepVisibleEnabled(r.found, dom) ELSE <<>>
         IN  here \o FindFieldsBySelectors(Tail(selectors), dom, raises)

\* map_form_fields: a system type outside the table is mapped as generic.
MapFormFields(system_type, dom, raises) ==
    LET patterns == IF system_type \in DOMAIN form_patterns
                    THEN form_patterns[system_type]
                    ELSE form_patterns["generic"]
    IN  [field_type \in DOMAIN patterns |->
            FindFieldsBySelectors(patterns[field_type], dom, raises)]

-----------------------------------------------------------------------------
(* Filling a control *)

\* An entry of an element's log: method m called with x.
Call(m, x) == [m |-> m, x |-> x]

\* field.clear(): [ok, field].  The driver refuses to clear a <select>.
Clear(e) ==
    IF "clear" \in e.raises \/ e.tag = "select" THEN [ok |-> FALSE, field |-> e]
    ELSE [ok |-> TRUE,
          field |-> [e EXCEPT !.value = "", !.log = Append(@, Call("clear", ""))]]

\* field.send_keys(text): [ok, field].
SendKeys(e, text) ==
    IF "send_keys" \in e.raises THEN [ok |-> FALSE, field |-> e]
    ELSE [ok |-> TRUE,
          field |-> [e EXCEPT !.value = PyOr(@, "") \o text,
                              !.log = Append(@, Call("send_keys", text))]]

\* human_type(element, text): send_keys for each character; nothing is sent
\* for an empty text.
HumanType(e, text) ==
    IF text = "" THEN [ok |-> TRUE, field |-> e] ELSE SendKeys(e, text)

\* field.clear() followed by human_type(field, value): [ok, field]; ok is
\* FALSE when one of the calls raised.
ClearAndType(e, value) ==
    LET c == Clear(e)
    IN  IF ~c.ok THEN c ELSE HumanType(c.field, value)

\* dom with the element at position i replaced by e.
Put(dom, i, e) == [dom EXCEPT ![i] = e]

-----------------------------------------------------------------------------
(* ExternalFormMapper: the steps of fill_application_form *)

\* get_field_value for the kinds fill_basic_fields asks for; profile[k] is
\* None when the profile has no key k.
GetFieldValue(field_type, profile) ==
    CASE field_type = "name" -> IF profile.name = None THEN "John Doe"
                                ELSE profile.name
      [] field_type = "email" -> IF profile.email = None
                                 THEN "john.doe@example.com"
                                 ELSE profile.email
      [] field_type = "phone" -> IF profile.phone = None THEN "+65 9123 4567"
                                 ELSE profile.phone
      [] OTHER -> None

\* fill_field_appropriately(field, field_type, profile_data): [ret, dom].
FillFieldAppropriately(dom, i, field_type, profile) ==
    LET value == GetFieldValue(field_type, profile)
    IN  IF Truthy(value)
        THEN LET r == ClearAndType(dom[i], value)
             IN  [ret |-> r.ok, dom |-> Put(dom, i, r.field)]
        ELSE [ret |-> FALSE, dom |-> dom]

\* The loop going on to the next candidate when the fill of one returned
\* False.
RECURSIVE FillFirstEmptyUntilFilled(_, _, _, _)
FillFirstEmptyUntilFilled(dom, fields, field_type, profile) ==
    IF fields = <<>> THEN [ok |-> TRUE, dom |-> dom]
    ELSE LET i == Head(fields)
         IN  IF "get_attribute" \in dom[i].raises
             THEN [ok |-> FALSE, dom |-> dom]
             ELSE IF ~Truthy(dom[i].value)
             THEN LET r == FillFieldAppropriately(dom, i, field_type, profile)
                  IN  IF r.ret THEN [ok |-> TRUE, dom |-> r.dom]
                      ELSE FillFirstEmptyUntilFilled(r.dom, Tail(fields),
                                                     field_type, profile)
             ELSE FillFirstEmptyUntilFilled(dom, Tail(fields), field_type,
                                            profile)

\* One `for field in fields: if not value: fill; break` loop of
\* fill_basic_fields: [ok, dom]; ok is FALSE when get_attribute raised.
RECURSIVE FillFirstEmpty(_, _, _, _)
FillFirstEmpty(dom, fields, field_type, profile) ==
    IF fields = <<>> THEN [ok |-> TRUE, dom |-> dom]
    ELSE LET i == Head(fields)
         IN  IF "get_attribute" \in dom[i].raises
             THEN [ok |-> FALSE, dom |-> dom]
             ELSE IF ~Truthy(dom[i].value)
             THEN [ok |-> TRUE,
                   dom |-> FillFieldAppropriately(dom, i, field_type,
                                                  profile).dom]
             ELSE FillFirstEmpty(dom, Tail(fields), field_type, profile)

\* fill_basic_fields: the page afterwards.  An exception raised in one of the
\* three loops ends the whole method.
FillBasicFields(dom, mapped, profile) ==
    LET n == FillFirstEmpty(dom, mapped.name_fields, "name", profile)
    IN  IF ~n.ok THEN n.dom
        ELSE LET e == FillFirstEmpty(n.dom, mapped.email_fields, "email",
                                     profile)
             IN  IF ~e.ok THEN e.dom
                 ELSE FillFirstEmpty(e.dom, mapped.phone_fields, "phone",
                                     profile).dom

\* handle_resume_upload(resume_fields, resume_file): [ret, dom].
HandleResumeUpload(dom, resume_fields, resume_file) ==
    IF resume_fields = <<>> THEN [ret |-> FALSE, dom |-> dom]
    ELSE LET r == SendKeys(dom[resume_fields[1]], resume_file)
         IN  [ret |-> r.ok, dom |-> Put(dom, resume_fields[1], r.field)]

\* fill_additional_field clearing the control before a value is resolved.
FillAdditionalFieldClearFirst(e) ==
    IF "get_attribute" \in e.raises THEN [ret |-> FALSE, field |-> e]
    ELSE LET value == GetAdditionalFieldValue(e.type, FieldName(e),
                                              FieldPlaceholder(e))
             c == Clear(e)
         IN  IF ~c.ok THEN [ret |-> FALSE, field |-> e]
             ELSE IF Truthy(value)
             THEN LET r == HumanType(c.field, value)
                  IN  [ret |-> r.ok, field |-> r.field]
             ELSE [ret |-> FALSE, field |-> c.field]

\* fill_additional_field(field): [ret, field].
FillAdditionalField(e) ==
    IF "get_attribute" \in e.raises THEN [ret |-> FALSE, field |-> e]
    ELSE LET value == GetAdditionalFieldValue(e.type, FieldName(e),
                                              FieldPlaceholder(e))
         IN  IF Truthy(value)
             THEN LET r == ClearAndType(e, value)
                  IN  [ret |-> r.ok, field |-> r.field]
             ELSE [ret |-> FALSE, field |-> e]

\* One loop of fill_additional_questions over the positions idxs:
\* [count, dom].
RECURSIVE FillQuestions(_, _, _)
FillQuestions(dom, idxs, count) ==
    IF idxs = <<>> THEN [count |-> count, dom |-> dom]
    ELSE LET i == Head(idxs)
             r == IF ~ShouldFillAdditionalField(dom[i])
                  THEN [ret |-> FALSE, field |-> dom[i]]
                  ELSE IF dom[i].tag = "select" THEN FillSelectField(dom[i])
                  ELSE FillAdditionalField(dom[i])
         IN  FillQuestions(Put(dom, i, r.field), Tail(idxs),
                           IF r.ret THEN count + 1 ELSE count)

\* fill_additional_questions: [count, dom].
FillAdditionalQuestions(dom, raises) ==
    IF "find_elements" \in raises THEN [count |-> 0, dom |-> dom]
    ELSE LET inputs == FillQuestions(dom, FindElementsByTag(dom, "input"), 0)
             areas == FillQuestions(inputs.dom,
                                    FindElementsByTag(dom, "textarea"),
                                    inputs.count)
         IN  FillQuestions(areas.dom, FindElementsByTag(dom, "select"),
                           areas.count)

cover_letter_selectors ==
    <<Css("textarea", "name", "sub", "cover"),
      Css("textarea", "name", "sub", "letter"),
      Css("textarea", "placeholder", "sub", "cover"),
      Css("textarea", "placeholder", "sub", "letter"),
      Css("textarea", "name", "sub", "message"),
      Css("textarea", "name", "sub", "additional")>>

\* The selector loop add_cover_letter and add_cover_letter_to_easy_apply
\* share: the first match of each selector in turn; a visible and enabled one
\* is cleared and typed into; NoSuchElementException moves on to the next
\* selector, every other exception ends the method with False.  [ret, dom].
RECURSIVE TypeIntoFirst(_, _, _, _)
TypeIntoFirst(dom, selectors, text, raises) ==
    IF selectors = <<>> THEN [ret |-> FALSE, dom |-> dom]
    ELSE LET r == FindElement(Head(selectors), dom, raises)
             e == dom[r.found]
         IN  IF r.outcome = "error" THEN [ret |-> FALSE, dom |-> dom]
             ELSE IF r.outcome = "none"
             THEN TypeIntoFirst(dom, Tail(selectors), text, raises)
             ELSE IF "is_displayed" \in e.raises
             THEN [ret |-> FALSE, dom |-> dom]
             ELSE IF ~e.displayed
             THEN TypeIntoFirst(dom, Tail(selectors), text, raises)
             ELSE IF "is_enabled" \in e.raises
             THEN [ret |-> FALSE, dom |-> dom]
             ELSE IF ~e.enabled
             THEN TypeIntoFirst(dom, Tail(selectors), text, raises)
             ELSE LET t == ClearAndType(e, text)
                  IN  [ret |-> t.ok, dom |-> Put(dom, r.found, t.field)]

\* add_cover_letter(mapped_fields, cover_letter): [ret, dom].
AddCoverLetter(dom, cover_letter, raises) ==
    TypeIntoFirst(dom, cover_letter_selectors, cover_letter, raises)

\* submit_field.click(): [ok, field]; a click that raises is logged as such.
Click(e) ==
    IF "click" \in e.raises
    THEN [ok |-> FALSE,
          field |-> [e EXCEPT !.log = Append(@, Call("click", "raised"))]]
    ELSE [ok |-> TRUE,
          field |-> [e EXCEPT !.log = Append(@, Call("click", ""))]]

\* submit_form giving up at the first enabled candidate whose click raises.
RECURSIVE SubmitFormFirstEnabledOnly(_, _, _, _, _)
SubmitFormFirstEnabledOnly(dom, submit_fields, source, post, raises) ==
    IF submit_fields = <<>>
    THEN [ret |-> FALSE, dom |-> dom, source |-> source]
    ELSE LET i == Head(submit_fields)
             e == dom[i]
         IN  IF "is_enabled" \in e.raises \/ ~e.enabled
             THEN SubmitFormFirstEnabledOnly(dom, Tail(submit_fields), source,
                                             post, raises)
             ELSE LET c == Click(e)
                  IN  IF c.ok
                      THEN [ret |-> CheckSubmissionSuccess(post, raises),
                            dom |-> Put(dom, i, c.field), source |-> post]
                      ELSE [ret |-> FALSE, dom |-> Put(dom, i, c.field),
                            source |-> source]

\* submit_form(submit_fields): [ret, dom, source]; source is the markup the
\* driver shows afterwards (post once a click went through).
RECURSIVE SubmitForm(_, _, _, _, _)
SubmitForm(dom, submit_fields, source, post, raises) ==
    IF submit_fields = <<>>
    THEN [ret |-> FALSE, dom |-> dom, source |-> source]
    ELSE LET i == Head(submit_fields)
             e == dom[i]
         IN  IF "is_enabled" \in e.raises \/ ~e.enabled
             THEN SubmitForm(dom, Tail(submit_fields), source, post, raises)
             ELSE LET c == Click(e)
                  IN  IF c.ok
                      THEN [ret |-> CheckSubmissionSuccess(post, raises),
                            dom |-> Put(dom, i, c.field), source |-> post]
                      ELSE SubmitForm(Put(dom, i, c.field),
                                      Tail(submit_fields), source, post,
                                      raises)

-----------------------------------------------------------------------------
(* LinkedInApplicationHandler: the steps of handle_linkedin_easy_apply *)

easy_apply_relevant_names ==
    <<"name", "email", "phone", "experience", "years", "skills">>

\* LinkedInApplicationHandler.should_fill_field
ShouldFillField(f) ==
    IF "is_displayed" \in f.raises THEN FALSE
    ELSE IF ~f.displayed THEN FALSE
    ELSE IF "is_enabled" \in f.raises THEN FALSE
    ELSE IF ~f.enabled THEN FALSE
    ELSE IF "get_attribute" \in f.raises THEN FALSE
    ELSE IF Truthy(f.value) THEN FALSE
    ELSE IF Truthy(PyOr(f.required, f.aria_required)) THEN TRUE
    ELSE IF InList(f.type, relevant_types) THEN TRUE
    ELSE IF ContainsAny(easy_apply_relevant_names, Lower(FieldName(f)))
    THEN TRUE
    ELSE FALSE

\* LinkedInApplicationHandler.get_field_value(field_type, field_name)
EasyApplyFieldValue(field_type, field_name) ==
    IF Contains("name", field_name) THEN "John Doe"
    ELSE IF Contains("email", field_name) THEN "john.doe@example.com"
    ELSE IF Contains("phone", field_name) \/ Contains("tel", field_name)
    THEN "+65 9123 4567"
    ELSE IF Contains("experience", field_name) \/ Contains("years", field_name)
    THEN "5"
    ELSE IF Contains("skills", field_name) THEN "Python, SQL, Data Engineering"
    ELSE IF Contains("education", field_name) THEN "Bachelor's Degree"
    ELSE IF Contains("location", field_name) THEN "Singapore"
    ELSE IF field_type = "text" THEN "See resume for details"
    ELSE IF field_type = "number" THEN "5"
    ELSE IF field_type = "email" THEN "john.doe@example.com"
    ELSE None

\* LinkedInApplicationHandler.fill_field_appropriately(field): [ret, field].
EasyApplyFillField(e) ==
    IF "get_attribute" \in e.raises THEN [ret |-> FALSE, field |-> e]
    ELSE LET value == EasyApplyFieldValue(e.type, Lower(FieldName(e)))
         IN  IF Truthy(value)
             THEN LET r == ClearAndType(e, value)
                  IN  [ret |-> r.ok, field |-> r.field]
             ELSE [ret |-> FALSE, field |-> e]

file_input_selectors ==
    <<Css("input", "type", "eq", "file"),
      Css("input", "accept", "sub", ".pdf"),
      Css("input", "accept", "sub", ".doc"),
      Css("input", "accept", "sub", ".docx"),
      Css("*", "data_test_id", "eq", "resume-upload-input")>>

\* The loop of handle_resume_upload over file_input_selectors: the first
\* element found ("found"), "none", or "error" when find_element raised
\* another exception than NoSuchElementException.
RECURSIVE FirstFound(_, _, _)
FirstFound(selectors, dom, raises) ==
    IF selectors = <<>> THEN [outcome |-> "none", found |-> 0]
    ELSE LET r == FindElement(Head(selectors), dom, raises)
         IN  IF r.outcome = "none" THEN FirstFound(Tail(selectors), dom, raises)
             ELSE r

\* The path create_temp_resume_file gives its n-th file.
TempResumeFile(n) == <<"resume.pdf", n>>

\* LinkedInApplicationHandler.handle_resume_upload: [ret, dom, temp_files].
\* temp_ok tells whether create_temp_resume_file can write its file.
EasyApplyResumeUpload(dom, temp_files, temp_ok, raises) ==
    LET r == FirstFound(file_input_selectors, dom, raises)
        resume_file == TempResumeFile(Len(temp_files) + 1)
        files == Append(temp_files, resume_file)
    IN  IF r.outcome # "found"
        THEN [ret |-> FALSE, dom |-> dom, temp_files |-> temp_files]
        ELSE IF ~temp_ok
        THEN [ret |-> FALSE, dom |-> dom, temp_files |-> temp_files]
        ELSE LET k == SendKeys(dom[r.found], "resume.pdf")
             IN  [ret |-> k.ok, dom |-> Put(dom, r.found, k.field),
                  temp_files |-> files]

question_selectors ==
    <<Css("input", "type", "eq", "text"), Css("textarea", "", "any", ""),
      Css("select", "", "any", ""), Css("input", "type", "eq", "number"),
      Css("input", "type", "eq", "email"), Css("input", "type", "eq", "tel")>>

\* The inner loop of fill_easy_apply_questions over the positions idxs:
\* [count, dom].
RECURSIVE EasyApplyFillEach(_, _, _)
EasyApplyFillEach(dom, idxs, count) ==
    IF idxs = <<>> THEN [count |-> count, dom |-> dom]
    ELSE LET i == Head(idxs)
             r == IF ShouldFillField(dom[i]) THEN EasyApplyFillField(dom[i])
                  ELSE [ret |-> FALSE, field |-> dom[i]]
         IN  EasyApplyFillEach(Put(dom, i, r.field), Tail(idxs),
                               IF r.ret THEN count + 1 ELSE count)

\* The selector loop of fill_easy_apply_questions: [count, dom].
RECURSIVE EasyApplyQuestionLoop(_, _, _, _)
EasyApplyQuestionLoop(dom, selectors, count, raises) ==
    IF selectors = <<>> THEN [count |-> count, dom |-> dom]
    ELSE LET r == FindElements(Head(selectors), dom, raises)
             here == IF r.ok THEN EasyApplyFillEach(dom, r.found, count)
                     ELSE [count |-> count, dom |-> dom]
         IN  EasyApplyQuestionLoop(here.dom, Tail(selectors), here.count,
                                   raises)

\* fill_easy_apply_questions: [ret, dom]; ret is questions_filled > 0.
FillEasyApplyQuestions(dom, raises) ==
    LET r == EasyApplyQuestionLoop(dom, question_selectors, 0, raises)
    IN  [ret |-> r.count > 0, dom |-> r.dom]

easy_apply_cover_letter_selectors ==
    <<Css("textarea", "name", "sub", "cover"),
      Css("textarea", "name", "sub", "letter"),
      Css("textarea", "placeholder", "sub", "cover"),
      Css("textarea", "placeholder", "sub", "letter"),
      Css("*", "data_test_id", "eq", "cover-letter-input")>>

\* add_cover_letter_to_easy_apply(cover_letter): [ret, dom].
AddCoverLetterToEasyApply(dom, cover_letter, raises) ==
    TypeIntoFirst(dom, easy_apply_cover_letter_selectors, cover_letter, raises)

application_success_indicators ==
    <<"Application submitted", "Thank you for your application",
      "Application received", "Successfully applied", "Application complete">>

application_error_indicators ==
    <<"error occurred", "application failed", "please try again",
      "something went wrong">>

\* indicator.lower() for each indicator of a list.
LowerAll(list) == [k \in 1..Len(list) |-> Lower(list[k])]

\* LinkedInApplicationHandler.check_application_success
CheckApplicationSuccess(source, raises) ==
    IF "page_source" \in raises THEN FALSE
    ELSE LET page_text == Lower(source)
         IN  IF ContainsAny(LowerAll(application_success_indicators),
                            page_text) THEN TRUE
             ELSE IF ContainsAny(LowerAll(application_error_indicators),
                                 page_text) THEN FALSE
             ELSE TRUE

submit_selectors ==
    <<Css("button", "data_control_name", "eq", "submit_unify"),
      Css("button", "aria_label", "eq", "Submit application"),
      Css("button", "type", "eq", "submit"),
      Css("button", "last_in", "last_in", "jobs-easy-apply-content")>>

\* submit_easy_apply: [ret, dom, source].  Only NoSuchElementException moves
\* on to the next selector; every other exception ends the method with False.
RECURSIVE SubmitEasyApply(_, _, _, _, _)
SubmitEasyApply(dom, selectors, source, post, raises) ==
    IF selectors = <<>> THEN [ret |-> FALSE, dom |-> dom, source |-> source]
    ELSE LET r == FindElement(Head(selectors), dom, raises)
             e == dom[r.found]
         IN  IF r.outcome = "error"
             THEN [ret |-> FALSE, dom |-> dom, source |-> source]
             ELSE IF r.outcome = "none"
             THEN SubmitEasyApply(dom, Tail(selectors), source, post, raises)
             ELSE IF "is_enabled" \in e.raises
             THEN [ret |-> FALSE, dom |-> dom, source |-> source]
             ELSE IF ~e.enabled
             THEN SubmitEasyApply(dom, Tail(selectors), source, post, raises)
             ELSE LET c == Click(e)
                  IN  IF c.ok
                      THEN [ret |-> CheckApplicationSuccess(post, raises),
                            dom |-> Put(dom, r.found, c.field),
                            source |-> post]
                      ELSE [ret |-> FALSE, dom |-> Put(dom, r.found, c.field),
                            source |-> source]

-----------------------------------------------------------------------------
(* LinkedInApplicationHandler: the steps of handle_application_form *)

apply_selectors ==
    <<Css("button", "data_control_name", "eq", "jobdetails_topcard_inapply"),
      Css("button", "data_control_name", "eq", "jobdetails_topcard_apply"),
      Css("button", "aria_label", "sub", "Apply"),
      Css("button", "aria_label", "sub", "Easy Apply"),
      Css("button", "text", "invalid", "Apply"),
      Css("*", "class", "eq", "apply-button"),
      Css("*", "class", "eq", "job-apply-button")>>

\* WebDriverWait(driver, 5).until(EC.element_to_be_clickable(sel)):
\* [outcome, found]; outcome is "found", "timeout" (TimeoutException) or
\* "error" (another exception).  A selector the browser rejects and an
\* element whose state cannot be read end the wait with a timeout under a
\* library that takes them for a missing element (lenient) and with their
\* own exception otherwise.
WaitClickable(sel, dom, raises, lenient) ==
    LET hard == IF lenient THEN "timeout" ELSE "error"
        found == MatchesIn(sel, dom)
    IN  IF "find_element" \in raises THEN [outcome |-> "error", found |-> 0]
        ELSE IF sel.rel = "invalid" THEN [outcome |-> hard, found |-> 0]
        ELSE IF found = <<>> THEN [outcome |-> "timeout", found |-> 0]
        ELSE IF dom[found[1]].raises \cap {"is_displayed", "is_enabled"} # {}
        THEN [outcome |-> hard, found |-> 0]
        ELSE IF dom[found[1]].displayed /\ dom[found[1]].enabled
        THEN [outcome |-> "found", found |-> found[1]]
        ELSE [outcome |-> "timeout", found |-> 0]

\* The fallback of find_and_click_apply_button: the first button whose text
\* contains "apply" is clicked; every exception is passed over.  [ret, dom].
RECURSIVE ClickByText(_, _)
ClickByText(dom, idxs) ==
    IF idxs = <<>> THEN [ret |-> FALSE, dom |-> dom]
    ELSE IF Contains("apply", Lower(dom[Head(idxs)].text))
    THEN LET c == Click(dom[Head(idxs)])
         IN  [ret |-> c.ok, dom |-> Put(dom, Head(idxs), c.field)]
    ELSE ClickByText(dom, Tail(idxs))

\* find_and_click_apply_button: [ret, dom].  Only a timeout moves on to the
\* next selector; another exception of the wait or of click() ends the
\* method with False.
RECURSIVE FindAndClickApplyButton(_, _, _, _)
FindAndClickApplyButton(dom, selectors, raises, lenient) ==
    IF selectors = <<>>
    THEN LET b == FindElements(Css("button", "", "any", ""), dom, raises)
         IN  IF b.ok THEN ClickByText(dom, b.found)
             ELSE [ret |-> FALSE, dom |-> dom]
    ELSE LET w == WaitClickable(Head(selectors), dom, raises, lenient)
         IN  IF w.outcome = "error" THEN [ret |-> FALSE, dom |-> dom]
             ELSE IF w.outcome = "timeout"
             THEN FindAndClickApplyButton(dom, Tail(selectors), raises,
                                          lenient)
             ELSE LET c == Click(dom[w.found])
                  IN  [ret |-> c.ok, dom |-> Put(dom, w.found, c.field)]

easy_apply_indicators ==
    <<Css("*", "class", "eq", "jobs-easy-apply-content"),
      Css("*", "class", "eq", "jobs-easy-apply-form"),
      Css("*", "data_test_id", "eq", "easy-apply-form"),
      Css("*", "class", "eq", "jobs-easy-apply-modal")>>

\* is_linkedin_easy_apply: the first indicator found and displayed.
RECURSIVE IsLinkedinEasyApply(_, _, _)
IsLinkedinEasyApply(dom, indicators, raises) ==
    IF indicators = <<>> THEN FALSE
    ELSE LET r == FindElement(Head(indicators), dom, raises)
         IN  IF r.outcome = "error" THEN FALSE
             ELSE IF r.outcome = "none"
             THEN IsLinkedinEasyApply(dom, Tail(indicators), raises)
             ELSE IF "is_displayed" \in dom[r.found].raises THEN FALSE
             ELSE IF dom[r.found].displayed THEN TRUE
             ELSE IsLinkedinEasyApply(dom, Tail(indicators), raises)

\* create_temp_resume_file: how far it gets.  "written": the file is
\* written and appended to temp_files; "failed": mkdtemp or open raised and
\* no file exists; "partial": open created the file and write (or the close
\* that flushes it) raised, so the file exists and line 218 is not reached.
TempOutcomes == {"written", "failed", "partial"}

\* handle_linkedin_easy_apply, line 154: the return of submit_easy_apply's
\* value s after the upload u.
EasyApplySubmitted(u, reached, s) ==
    [ret |-> s.ret, dom |-> s.dom, temp_files |-> u.temp_files,
     source |-> s.source, ran_upload |-> reached, resume_uploaded |-> TRUE,
     submit_invoked |-> TRUE, submit_result |-> s.ret]

\* handle_linkedin_easy_apply, lines 153-157, after the upload u and the
\* cover letter step c: submit_easy_apply when the resume was uploaded,
\* False otherwise.
EasyApplyFinish(u, reached, c, source, post, raises) ==
    IF u.ret
    THEN EasyApplySubmitted(u, reached,
                            SubmitEasyApply(c.dom, submit_selectors, source,
                                            post, raises))
    ELSE [ret |-> FALSE, dom |-> c.dom, temp_files |-> u.temp_files,
          source |-> source, ran_upload |-> reached,
          resume_uploaded |-> FALSE, submit_invoked |-> FALSE,
          submit_result |-> FALSE]

\* handle_linkedin_easy_apply, lines 147-150, after the upload u:
\* fill_easy_apply_questions, then add_cover_letter_to_easy_apply.
EasyApplyAfterUpload(u, reached, letter, source, post, raises) ==
    EasyApplyFinish(u, reached,
                    AddCoverLetterToEasyApply(
                        FillEasyApplyQuestions(u.dom, raises).dom, letter,
                        raises),
                    source, post, raises)

\* handle_linkedin_easy_apply: [ret, dom, temp_files, source, ran_upload,
\* resume_uploaded, submit_invoked, submit_result].  ran_upload tells whether
\* create_temp_resume_file was reached.
HandleLinkedinEasyApply(dom, temp_files, temp, letter, source, post, raises) ==
    IF FindElement(Css("*", "class", "eq", "jobs-easy-apply-content"), dom,
                   raises).outcome # "found"
    THEN [ret |-> FALSE, dom |-> dom, temp_files |-> temp_files,
          source |-> source, ran_upload |-> FALSE,
          resume_uploaded |-> FALSE, submit_invoked |-> FALSE,
          submit_result |-> FALSE]
    ELSE EasyApplyAfterUpload(
             EasyApplyResumeUpload(dom, temp_files, temp = "written", raises),
             FirstFound(file_input_selectors, dom, raises).outcome = "found",
             letter, source, post, raises)

\* handle_external_site_application with success reported once the
\* screenshot is saved.
HandleExternalSiteApplicationOptimistic(raises) ==
    IF "save_screenshot" \in raises THEN FALSE ELSE TRUE

\* handle_external_site_application: False after the screenshot and False
\* when taking it raised.
HandleExternalSiteApplication(raises) ==
    IF "save_screenshot" \in raises THEN FALSE ELSE FALSE

external_link_selectors ==
    <<Css("a", "href", "sub", "apply"), Css("a", "href", "sub", "career"),
      Css("a", "href", "sub", "jobs"),
      Css("button", "data_control_name", "eq", "external_apply")>>

\* The link loop of handle_external_application: [ret, dom].
RECURSIVE ExternalLinkLoop(_, _, _)
ExternalLinkLoop(dom, selectors, raises) ==
    IF selectors = <<>> THEN [ret |-> FALSE, dom |-> dom]
    ELSE LET r == FindElement(Head(selectors), dom, raises)
         IN  IF r.outcome = "error" THEN [ret |-> FALSE, dom |-> dom]
             ELSE IF r.outcome = "none"
             THEN ExternalLinkLoop(dom, Tail(selectors), raises)
             ELSE IF "is_displayed" \in dom[r.found].raises
             THEN [ret |-> FALSE, dom |-> dom]
             ELSE IF ~dom[r.found].displayed
             THEN ExternalLinkLoop(dom, Tail(selectors), raises)
             ELSE LET c == Click(dom[r.found])
                  IN  [ret |-> IF c.ok THEN HandleExternalSiteApplication(raises)
                               ELSE FALSE,
                       dom |-> Put(dom, r.found, c.field)]

\* handle_external_application: [ret, dom].
HandleExternalApplication(dom, url, raises) ==
    IF "current_url" \in raises THEN [ret |-> FALSE, dom |-> dom]
    ELSE IF ~Contains("linkedin.com", url)
    THEN [ret |-> HandleExternalSiteApplication(raises), dom |-> dom]
    ELSE ExternalLinkLoop(dom, external_link_selectors, raises)

\* The set of the entries of a sequence.
Range(s) == {s[k] : k \in 1..Len(s)}

\* cleanup_temp_files: every path of temp_files is handed to os.remove (when
\* it exists) and the list is cleared.  [temp_files, removed].
CleanupTempFiles(temp_files) ==
    [temp_files |-> <<>>, removed |-> Range(temp_files)]

-----------------------------------------------------------------------------
(* LinkedInJobAgent: the steps of run_job_search_session *)

\* self.break_interval
break_interval == 15

\* is_job_suitable(job_info)
IsJobSuitable(job_info, jobs_applied) ==
    IF \E k \in 1..Len(jobs_applied) :
          jobs_applied[k].job_id = job_info.job_id THEN FALSE
    ELSE IF /\ ~Contains("singapore", Lower(job_info.location))
            /\ ~Contains("hong kong", Lower(job_info.location)) THEN FALSE
    ELSE IF job_info.keyword_matched = "general" THEN FALSE
    ELSE TRUE

\* search_jobs(keyword, location) on a result page showing cards: the
\* suitable jobs in the order of their cards, [] when the search fails.
SearchJobs(cards, jobs_applied, failed) ==
    IF failed THEN <<>>
    ELSE SelectSeq(cards, LAMBDA j : IsJobSuitable(j, jobs_applied))

\* The search loop of run_job_search_session: all_jobs extended with the
\* result of every search.
RECURSIVE SearchAll(_, _, _)
SearchAll(searches, jobs_applied, all_jobs) ==
    IF searches = <<>> THEN all_jobs
    ELSE SearchAll(Tail(searches), jobs_applied,
                   all_jobs \o SearchJobs(Head(searches).cards, jobs_applied,
                                          Head(searches).failed))

\* The loop of remove_duplicate_jobs.
RECURSIVE UniqueJobs(_, _, _)
UniqueJobs(jobs, seen_ids, unique_jobs) ==
    IF jobs = <<>> THEN unique_jobs
    ELSE IF Head(jobs).job_id \notin seen_ids
    THEN UniqueJobs(Tail(jobs), seen_ids \cup {Head(jobs).job_id},
                    Append(unique_jobs, Head(jobs)))
    ELSE UniqueJobs(Tail(jobs), seen_ids, unique_jobs)

\* remove_duplicate_jobs keeping every job.
KeepDuplicateJobs(jobs) == jobs

\* remove_duplicate_jobs(jobs)
RemoveDuplicateJobs(jobs) == UniqueJobs(jobs, {}, <<>>)

Reverse(s) == [k \in 1..Len(s) |-> s[Len(s) + 1 - k]]

\* sort_jobs_by_relevance(jobs): the score of every suitable job carries a
\* random part of up to 2 that can outweigh the difference between the
\* locations, so the order is the environment's; the model takes the order
\* of the list and its reverse.
SortJobsByRelevance(jobs) == {jobs, Reverse(jobs)}

\* The test of line 892 letting one application past the limit.
CapReachedLate(applications_count, max_applications) ==
    applications_count > max_applications

\* run_job_search_session, line 892
CapReached(applications_count, max_applications) ==
    applications_count >= max_applications

\* run_job_search_session, line 896
BreakDue(applications_count) ==
    applications_count > 0 /\ applications_count % break_interval = 0

\* What setup_driver can meet: "ok"; "chrome_failed": uc.Chrome raised and
\* no browser exists; "script_failed": the browser exists and execute_script
\* raised.
SetupOutcomes == {"ok", "chrome_failed", "script_failed"}

\* setup_driver assigning self.driver once the script has run.
SetupDriverAssignLast(outcome) ==
    [driver |-> IF outcome = "ok" THEN "chrome" ELSE None,
     created |-> outcome # "chrome_failed",
     raised |-> outcome # "ok"]

\* setup_driver: [driver, created, raised]; driver is self.driver, created
\* tells whether a browser was started, raised whether the method raised.
SetupDriver(outcome) ==
    [driver |-> IF outcome = "chrome_failed" THEN None ELSE "chrome",
     created |-> outcome # "chrome_failed",
     raised |-> outcome # "ok"]

-----------------------------------------------------------------------------
(* Bounds and input sets *)

\* Most fragments a post-submit page text is made of.
MaxFragments == 2

\* Most options a dropdown holds.
MaxOptions == 3

\* Most fragments a page markup is made of (vendor detection).
MaxMarkupParts == 2

\* The sequences over S of length at most n.
RECURSIVE SeqsUpTo(_, _)
SeqsUpTo(S, n) ==
    IF n = 0 THEN {<<>>}
    ELSE LET shorter == SeqsUpTo(S, n - 1)
         IN  shorter \cup {Append(q, x) : q \in shorter, x \in S}

OutcomeFragments ==
    {"Thank You for your application. ", "APPLICATION SUBMITTED ",
     "Application received ", "You have Successfully Applied ",
     "application complete ", "Confirmation #12 ",
     "An Error Occurred ", "Application Failed ", "Please try again ",
     "Something went wrong ", "Validation Error ",
     "<html>Careers</html> ", "thank ", "you "}

OutcomeTexts == Concats(OutcomeFragments, MaxFragments)

\* What is_displayed / is_enabled answer and which calls raise.
ControlConditions ==
    {[displayed |-> TRUE, enabled |-> TRUE, raises |-> {}],
     [displayed |-> FALSE, enabled |-> TRUE, raises |-> {}],
     [displayed |-> TRUE, enabled |-> FALSE, raises |-> {}],
     [displayed |-> FALSE, enabled |-> FALSE, raises |-> {}],
     [displayed |-> TRUE, enabled |-> TRUE, raises |-> {"is_displayed"}],
     [displayed |-> TRUE, enabled |-> TRUE, raises |-> {"is_enabled"}],
     [displayed |-> TRUE, enabled |-> TRUE, raises |-> {"get_attribute"}]}

\* The (required, aria-required) attribute pairs.
RequiredMarks ==
    {<<None, None>>, <<"true", None>>, <<None, "true">>, <<None, "false">>}

ControlValues == {None, "", "filled"}

ControlTypes == {None, "text", "email", "tel", "number", "url", "checkbox"}

ControlNames ==
    {None, "", "first", "Experience", "years_of_experience", "SKILLS_list",
     "education", "location", "Salary", "availability"}

ControlIds == {None, "location_id"}

ControlPlaceholders == {None, "Comments", "Your Education", "e.g. 3 years"}

ClassifierControls ==
    {[BlankElement EXCEPT !.displayed = c.displayed, !.enabled = c.enabled,
                          !.raises = c.raises, !.value = v,
                          !.required = r[1], !.aria_required = r[2],
                          !.type = t, !.name = n, !.id = i,
                          !.placeholder = p] :
        c \in ControlConditions, v \in ControlValues, r \in RequiredMarks,
        t \in ControlTypes, n \in ControlNames, i \in ControlIds,
        p \in ControlPlaceholders}

ResolverTypes == {None, "text", "number", "email", "tel", "textarea"}

ResolverNames ==
    {"", "q1", "years_of_experience", "Skills", "technologies", "degree",
     "home_city", "compensation", "start", "Availability", "website",
     "education_location"}

ResolverPlaceholders ==
    {"", "date", "Your GitHub", "Salary expectations", "Years in role",
     "Portfolio of skills", "Location", "Highest Education"}

OptionTexts ==
    {"Select...", "No", "Yes, immediately available", "Bachelor of Science",
     "5+ years", "Maybe", "IMMEDIATE start"}

SelectControls ==
    {[BlankElement EXCEPT !.tag = "select", !.options = o, !.raises = r] :
        o \in SeqsUpTo(OptionTexts, MaxOptions), r \in {{}, {"select"}}}

DetectUrls ==
    {h \o q : h \in {"https://example.com", "https://wd5.myWorkdayJobs.com",
                     "https://jobs.Lever.co", "https://boards.greenhouse.io",
                     "https://acme.BambooHR.com", "https://cleverjobs.io"},
              q \in {"/careers", "/greenhouse/apply"}}

DetectMarkupFragments ==
    {"<div>Careers</div>", "Powered by WORKDAY ", "Lever ", "greenhouse ",
     "BambooHR ", "Apply now ", "Submit your Resume "}

DetectMarkups == Concats(DetectMarkupFragments, MaxMarkupParts)

\* A page of nf <form> elements followed by ni blank <input> elements.
FormPage(nf, ni) ==
    [k \in 1..(nf + ni) |->
        IF k <= nf THEN [BlankElement EXCEPT !.tag = "form"] ELSE BlankElement]

DetectPages == {FormPage(nf, ni) : nf \in {0, 1}, ni \in {0, 5, 6}}

DetectRaises == {{}, {"current_url"}, {"page_source"}, {"find_elements"}}

\* Most fragments a page text is made of (form heuristic).
MaxKeywordParts == 3

FormPatternFragments ==
    {"<div>Careers</div> ", "Apply ", "apply now ", "RESUME ", "Upload ",
     "Cover Letter ", "cover ", "Our platform "}

FormPatternTexts == Concats(FormPatternFragments, MaxKeywordParts)

\* FormPage, and five inputs followed by a textarea and a dropdown.
FormPatternPages ==
    DetectPages \cup
    {FormPage(0, 5) \o <<[BlankElement EXCEPT !.tag = "textarea"],
                         [BlankElement EXCEPT !.tag = "select"]>>}

FormPatternRaises == {{}, {"page_source"}, {"find_elements"}}

\* Most controls on a page handed to the field locator.
MaxControls == 2

\* What is_displayed / is_enabled of a located control answer, and which of
\* the two raises (a stale reference).
LocatorConditions ==
    {[displayed |-> TRUE, enabled |-> TRUE, raises |-> {}],
     [displayed |-> FALSE, enabled |-> TRUE, raises |-> {}],
     [displayed |-> TRUE, enabled |-> FALSE, raises |-> {}],
     [displayed |-> TRUE, enabled |-> TRUE, raises |-> {"is_displayed"}],
     [displayed |-> TRUE, enabled |-> TRUE, raises |-> {"is_enabled"}]}

LocatorElements ==
    {[BlankElement EXCEPT !.type = "text", !.name = "full_name",
                          !.id = "name"],
     [BlankElement EXCEPT !.type = "email", !.name = "email",
                          !.placeholder = "name@example.com"],
     [BlankElement EXCEPT !.type = "file", !.name = "resume",
                          !.accept = ".pdf,.doc"],
     [BlankElement EXCEPT !.tag = "button", !.type = "submit"]}

LocatorControls ==
    {[e EXCEPT !.displayed = c.displayed, !.enabled = c.enabled,
               !.raises = c.raises] :
        e \in LocatorElements, c \in LocatorConditions}

LocatorPages == SeqsUpTo(LocatorControls, MaxControls)

\* The selector lists of the vendor table, and one that starts with a
\* selector the browser rejects.
LocatorSelectorLists ==
    {form_patterns[v][k] : v \in DOMAIN form_patterns,
                           k \in DOMAIN GenericSelectors}
    \cup {<<Css("button", ":contains", "invalid", "Submit"),
            Css("button", "type", "eq", "submit"),
            Css("*", "type", "eq", "submit")>>}



-----------------------------------------------------------------------------
(* Specifications of the single operations *)

\* The variables an operation does not use.
Unused(o) ==
    /\ pc = "ready"
    /\ op = o
    /\ post_source = ""
    /\ mapped_fields = <<>>
    /\ locals = <<>>
    /\ ret = FALSE
    /\ val = None

InitOutcome ==
    /\ Unused("check_submission_success")
    /\ page = <<>>
    /\ current_url = ""
    /\ arg = <<>>
    /\ page_source \in OutcomeTexts
    /\ driver_raises \in {{}, {"page_source"}}

CheckSubmissionSuccessCall ==
    /\ pc = "ready"
    /\ op = "check_submission_success"
    /\ ret' = CheckSubmissionSuccess(page_source, driver_raises)
    /\ pc' = "done"
    /\ UNCHANGED <<op, page, current_url, page_source, post_source,
                   driver_raises, arg, mapped_fields, locals, val>>

SpecOutcome == InitOutcome /\ [][CheckSubmissionSuccessCall]_vars

InitClassifier ==
    /\ Unused("should_fill_additional_field")
    /\ page \in {<<f>> : f \in ClassifierControls}
    /\ current_url = ""
    /\ page_source = ""
    /\ arg = <<>>
    /\ driver_raises = {}

ShouldFillAdditionalFieldCall ==
    /\ pc = "ready"
    /\ op = "should_fill_additional_field"
    /\ ret' = ShouldFillAdditionalField(page[1])
    /\ pc' = "done"
    /\ UNCHANGED <<op, page, current_url, page_source, post_source,
                   driver_raises, arg, mapped_fields, locals, val>>

SpecClassifier == InitClassifier /\ [][ShouldFillAdditionalFieldCall]_vars

InitResolver ==
    /\ Unused("get_additional_field_value")
    /\ page = <<>>
    /\ current_url = ""
    /\ page_source = ""
    /\ driver_raises = {}
    /\ arg \in [field_type : ResolverTypes, field_name : ResolverNames,
                field_placeholder : ResolverPlaceholders]

GetAdditionalFieldValueCall ==
    /\ pc = "ready"
    /\ op = "get_additional_field_value"
    /\ val' = GetAdditionalFieldValue(arg.field_type, arg.field_name,
                                      arg.field_placeholder)
    /\ pc' = "done"
    /\ UNCHANGED <<op, page, current_url, page_source, post_source,
                   driver_raises, arg, mapped_fields, locals, ret>>

SpecResolver == InitResolver /\ [][GetAdditionalFieldValueCall]_vars

InitSelect ==
    /\ Unused("fill_select_field")
    /\ page \in {<<f>> : f \in SelectControls}
    /\ current_url = ""
    /\ page_source = ""
    /\ arg = <<>>
    /\ driver_raises = {}

FillSelectFieldCall ==
    /\ pc = "ready"
    /\ op = "fill_select_field"
    /\ LET r == FillSelectField(page[1])
       IN  /\ page' = <<r.field>>
           /\ ret' = r.ret
    /\ pc' = "done"
    /\ UNCHANGED <<op, current_url, page_source, post_source, driver_raises,
                   arg, mapped_fields, locals, val>>

SpecSelect == InitSelect /\ [][FillSelectFieldCall]_vars

InitDetect ==
    /\ Unused("detect_application_system")
    /\ page \in DetectPages
    /\ current_url \in DetectUrls
    /\ page_source \in DetectMarkups
    /\ arg = <<>>
    /\ driver_raises \in DetectRaises

DetectApplicationSystemCall ==
    /\ pc = "ready"
    /\ op = "detect_application_system"
    /\ val' = DetectApplicationSystem(current_url, page_source, page,
                                      driver_raises)
    /\ pc' = "done"
    /\ UNCHANGED <<op, page, current_url, page_source, post_source,
                   driver_raises, arg, mapped_fields, locals, ret>>

SpecDetect == InitDetect /\ [][DetectApplicationSystemCall]_vars

InitFormPatterns ==
    /\ Unused("detect_form_patterns")
    /\ page \in FormPatternPages
    /\ current_url = ""
    /\ page_source \in FormPatternTexts
    /\ arg = <<>>
    /\ driver_raises \in FormPatternRaises

DetectFormPatternsCall ==
    /\ pc = "ready"
    /\ op = "detect_form_patterns"
    /\ ret' = DetectFormPatterns(page_source, page, driver_raises)
    /\ pc' = "done"
    /\ UNCHANGED <<op, page, current_url, page_source, post_source,
                   driver_raises, arg, mapped_fields, locals, val>>

SpecFormPatterns == InitFormPatterns /\ [][DetectFormPatternsCall]_vars

\* find_fields_by_selectors(selectors): mapped_fields holds the list `fields`
\* of the method, empty at line 166 and returned at line 178.
InitLocator ==
    /\ Unused("find_fields_by_selectors")
    /\ page \in LocatorPages
    /\ current_url = ""
    /\ page_source = ""
    /\ arg \in {[selectors |-> l] : l \in LocatorSelectorLists}
    /\ driver_raises \in {{}, {"find_elements"}}

FindFieldsBySelectorsCall ==
    /\ pc = "ready"
    /\ op = "find_fields_by_selectors"
    /\ mapped_fields' = FindFieldsBySelectors(arg.selectors, page,
                                              driver_raises)
    /\ pc' = "done"
    /\ UNCHANGED <<op, page, current_url, page_source, post_source,
                   driver_raises, arg, locals, ret, val>>

SpecLocator == InitLocator /\ [][FindFieldsBySelectorsCall]_vars



-----------------------------------------------------------------------------
(* Pages of the form-fill specification *)

\* An element of the given tag, type and name.
Element(tag, type, name) ==
    [BlankElement EXCEPT !.tag = tag, !.type = type, !.name = name]

NameInput == [Element("input", "text", "full_name") EXCEPT !.id = "name"]

EmailInput == [Element("input", "email", "email") EXCEPT !.value = ""]

FileInput == [Element("input", "file", "resume") EXCEPT !.accept = ".pdf"]

SubmitButton == Element("button", "submit", None)

NameSlots == {<<>>, <<NameInput>>, <<[NameInput EXCEPT !.value = "Bob"]>>}

EmailSlots ==
    {<<>>, <<EmailInput>>, <<[EmailInput EXCEPT !.raises = {"get_attribute"}]>>}

UploadSlots ==
    {<<>>, <<FileInput>>, <<[FileInput EXCEPT !.raises = {"send_keys"}]>>,
     <<[FileInput EXCEPT !.displayed = FALSE]>>}

AreaSlots ==
    {<<>>, <<Element("textarea", "textarea", "cover_letter")>>,
     <<[Element("textarea", "textarea", "additional_skills")
          EXCEPT !.required = "true"]>>,
     <<[Element("textarea", "textarea", "cover_letter")
          EXCEPT !.raises = {"clear"}]>>}

SelectSlots ==
    {<<>>,
     <<[Element("select", "select-one", "availability")
          EXCEPT !.options = <<"Select...", "No", "Yes">>]>>}

SubmitSlots ==
    {<<>>, <<SubmitButton>>, <<[SubmitButton EXCEPT !.raises = {"click"}]>>,
     <<[SubmitButton EXCEPT !.enabled = FALSE]>>}

SecondSubmitSlots ==
    {<<>>, <<[Element("input", "submit", "go") EXCEPT !.value = "Submit"]>>}

ExternalPages ==
    {n \o e \o u \o a \o d \o b \o c :
        n \in NameSlots, e \in EmailSlots, u \in UploadSlots, a \in AreaSlots,
        d \in SelectSlots, b \in SubmitSlots, c \in SecondSubmitSlots}

PostSources ==
    {"<h1>Thank you for your application</h1>", "<h1>Careers</h1>",
     "<p>Something went wrong</p>"}

Profiles ==
    {[name |-> None, email |-> None, phone |-> None],
     [name |-> "Ada Lovelace", email |-> "", phone |-> "+44 20 7946 0000"]}

EasyApplyContent ==
    [BlankElement EXCEPT !.tag = "div", !.class = "jobs-easy-apply-content"]

EasyApplySubmit ==
    [BlankElement EXCEPT !.tag = "button",
                         !.aria_label = "Submit application"]

ContentSlots == {<<>>, <<EasyApplyContent>>}

PhoneSlots == {<<>>, <<Element("input", "tel", "phoneNumber")>>}

CoverSlots == {<<>>, <<Element("textarea", "textarea", "cover_letter")>>}

EasyApplySubmitSlots ==
    {<<>>, <<EasyApplySubmit>>, <<[EasyApplySubmit EXCEPT !.raises = {"click"}]>>,
     <<[EasyApplySubmit EXCEPT !.enabled = FALSE]>>}

LastButtonSlots ==
    {<<>>,
     <<[BlankElement EXCEPT !.tag = "button",
                            !.last_in = "jobs-easy-apply-content"]>>}

EasyApplyPages ==
    {c \o u \o q \o a \o b \o l :
        c \in ContentSlots, u \in UploadSlots, q \in PhoneSlots,
        a \in CoverSlots, b \in EasyApplySubmitSlots, l \in LastButtonSlots}

-----------------------------------------------------------------------------
(* The form-fill specification: ExternalFormMapper.map_form_fields followed *)
(* by fill_application_form, and                                           *)
(* LinkedInApplicationHandler.handle_linkedin_easy_apply                   *)

NoLocals ==
    [resume_uploaded |-> FALSE, questions_filled |-> 0,
     questions_answered |-> FALSE, cover_letter_added |-> FALSE,
     submit_invoked |-> FALSE, temp_files |-> <<>>]

NoMapping ==
    [name_fields |-> <<>>, email_fields |-> <<>>, phone_fields |-> <<>>,
     resume_upload |-> <<>>, submit_button |-> <<>>]

InitExternalFill ==
    /\ op = "fill_application_form"
    /\ pc = "map"
    /\ page \in ExternalPages
    /\ arg \in {[system_type |-> t, profile_data |-> d,
                 resume_file |-> "/home/me/resume.pdf",
                 cover_letter |-> "Dear hiring manager", temp_ok |-> TRUE,
                 page |-> page] :
                    t \in {"generic", "lever"}, d \in Profiles}

InitEasyApply ==
    /\ op = "handle_linkedin_easy_apply"
    /\ pc = "wait"
    /\ page \in EasyApplyPages
    /\ arg \in {[system_type |-> "linkedin", profile_data |-> <<>>,
                 resume_file |-> "", cover_letter |-> "Dear hiring manager",
                 temp_ok |-> t, page |-> page] : t \in BOOLEAN}

Init ==
    /\ InitExternalFill \/ InitEasyApply
    /\ current_url = "https://careers.example.com/apply"
    /\ page_source = "<h1>Apply</h1>"
    /\ post_source \in PostSources
    /\ driver_raises = {}
    /\ mapped_fields = NoMapping
    /\ locals = NoLocals
    /\ ret = FALSE
    /\ val = None

\* map_form_fields(system_type), whose result the caller hands to
\* fill_application_form.
MapFormFieldsCall ==
    /\ pc = "map"
    /\ mapped_fields' = MapFormFields(arg.system_type, page, driver_raises)
    /\ pc' = "basic"
    /\ UNCHANGED <<op, page, current_url, page_source, post_source,
                   driver_raises, arg, locals, ret, val>>

\* The basic-field step ending the whole fill when the value read of a
\* candidate raises.
FillBasicFieldsStepFatal ==
    /\ pc = "basic"
    /\ page' = FillBasicFields(page, mapped_fields, arg.profile_data)
    /\ IF \E i \in 1..Len(page) : "get_attribute" \in page[i].raises
       THEN pc' = "done" /\ ret' = FALSE
       ELSE pc' = "upload" /\ ret' = ret
    /\ UNCHANGED <<op, current_url, page_source, post_source, driver_raises,
                   arg, mapped_fields, locals, val>>

\* fill_application_form, line 186: fill_basic_fields.
FillBasicFieldsStep ==
    /\ pc = "basic"
    /\ page' = FillBasicFields(page, mapped_fields, arg.profile_data)
    /\ pc' = "upload"
    /\ UNCHANGED <<op, current_url, page_source, post_source, driver_raises,
                   arg, mapped_fields, locals, ret, val>>

\* fill_application_form, line 189: handle_resume_upload.
HandleResumeUploadStep ==
    /\ pc = "upload"
    /\ LET r == HandleResumeUpload(page, mapped_fields.resume_upload,
                                   arg.resume_file)
       IN  /\ page' = r.dom
           /\ locals' = [locals EXCEPT !.resume_uploaded = r.ret]
    /\ pc' = "questions"
    /\ UNCHANGED <<op, current_url, page_source, post_source, driver_raises,
                   arg, mapped_fields, ret, val>>

\* fill_application_form, line 192: fill_additional_questions.
FillAdditionalQuestionsStep ==
    /\ pc = "questions"
    /\ LET r == FillAdditionalQuestions(page, driver_raises)
       IN  /\ page' = r.dom
           /\ locals' = [locals EXCEPT !.questions_filled = r.count]
    /\ pc' = "cover"
    /\ UNCHANGED <<op, current_url, page_source, post_source, driver_raises,
                   arg, mapped_fields, ret, val>>

\* The cover-letter step skipped once the upload failed.
AddCoverLetterStepGated ==
    /\ pc = "cover"
    /\ LET r == IF locals.resume_uploaded
                THEN AddCoverLetter(page, arg.cover_letter, driver_raises)
                ELSE [ret |-> FALSE, dom |-> page]
       IN  /\ page' = r.dom
           /\ locals' = [locals EXCEPT !.cover_letter_added = r.ret]
    /\ pc' = "submit"
    /\ UNCHANGED <<op, current_url, page_source, post_source, driver_raises,
                   arg, mapped_fields, ret, val>>

\* fill_application_form, line 195: add_cover_letter.
AddCoverLetterStep ==
    /\ pc = "cover"
    /\ LET r == AddCoverLetter(page, arg.cover_letter, driver_raises)
       IN  /\ page' = r.dom
           /\ locals' = [locals EXCEPT !.cover_letter_added = r.ret]
    /\ pc' = "submit"
    /\ UNCHANGED <<op, current_url, page_source, post_source, driver_raises,
                   arg, mapped_fields, ret, val>>

\* The last step of fill_application_form without the upload gate.
SubmitStepUngated ==
    /\ pc = "submit"
    /\ LET r == SubmitForm(page, mapped_fields.submit_button, page_source,
                           post_source, driver_raises)
       IN  /\ page' = r.dom
           /\ page_source' = r.source
           /\ ret' = r.ret
           /\ locals' = [locals EXCEPT !.submit_invoked = TRUE]
    /\ pc' = "done"
    /\ UNCHANGED <<op, current_url, post_source, driver_raises, arg,
                   mapped_fields, val>>

\* fill_application_form, lines 198-202: submit_form when the resume was
\* uploaded, False otherwise.
SubmitStep ==
    /\ pc = "submit"
    /\ IF locals.resume_uploaded
       THEN LET r == SubmitForm(page, mapped_fields.submit_button, page_source,
                                post_source, driver_raises)
            IN  /\ page' = r.dom
                /\ page_source' = r.source
                /\ ret' = r.ret
                /\ locals' = [locals EXCEPT !.submit_invoked = TRUE]
       ELSE /\ ret' = FALSE
            /\ UNCHANGED <<page, page_source, locals>>
    /\ pc' = "done"
    /\ UNCHANGED <<op, current_url, post_source, driver_raises, arg,
                   mapped_fields, val>>

\* handle_linkedin_easy_apply, lines 139-141: the wait for the form; a
\* timeout ends the method with False.
EasyApplyWaitStep ==
    /\ pc = "wait"
    /\ LET r == FindElement(Css("*", "class", "eq", "jobs-easy-apply-content"),
                            page, driver_raises)
       IN  IF r.outcome = "found"
           THEN pc' = "ea_upload" /\ ret' = ret
           ELSE pc' = "done" /\ ret' = FALSE
    /\ UNCHANGED <<op, page, current_url, page_source, post_source,
                   driver_raises, arg, mapped_fields, locals, val>>

\* handle_linkedin_easy_apply, line 144: handle_resume_upload.
EasyApplyUploadStep ==
    /\ pc = "ea_upload"
    /\ LET r == EasyApplyResumeUpload(page, locals.temp_files, arg.temp_ok,
                                      driver_raises)
       IN  /\ page' = r.dom
           /\ locals' = [locals EXCEPT !.resume_uploaded = r.ret,
                                       !.temp_files = r.temp_files]
    /\ pc' = "ea_questions"
    /\ UNCHANGED <<op, current_url, page_source, post_source, driver_raises,
                   arg, mapped_fields, ret, val>>

\* handle_linkedin_easy_apply, line 147: fill_easy_apply_questions.
EasyApplyQuestionsStep ==
    /\ pc = "ea_questions"
    /\ LET r == FillEasyApplyQuestions(page, driver_raises)
       IN  /\ page' = r.dom
           /\ locals' = [locals EXCEPT !.questions_answered = r.ret]
    /\ pc' = "ea_cover"
    /\ UNCHANGED <<op, current_url, page_source, post_source, driver_raises,
                   arg, mapped_fields, ret, val>>

\* handle_linkedin_easy_apply, line 150: add_cover_letter_to_easy_apply.
EasyApplyCoverStep ==
    /\ pc = "ea_cover"
    /\ LET r == AddCoverLetterToEasyApply(page, arg.cover_letter, driver_raises)
       IN  /\ page' = r.dom
           /\ locals' = [locals EXCEPT !.cover_letter_added = r.ret]
    /\ pc' = "ea_submit"
    /\ UNCHANGED <<op, current_url, page_source, post_source, driver_raises,
                   arg, mapped_fields, ret, val>>

\* handle_linkedin_easy_apply, lines 153-157: submit_easy_apply when the
\* resume was uploaded, False otherwise.
EasyApplySubmitStep ==
    /\ pc = "ea_submit"
    /\ IF locals.resume_uploaded
       THEN LET r == SubmitEasyApply(page, submit_selectors, page_source,
                                     post_source, driver_raises)
            IN  /\ page' = r.dom
                /\ page_source' = r.source
                /\ ret' = r.ret
                /\ locals' = [locals EXCEPT !.submit_invoked = TRUE]
       ELSE /\ ret' = FALSE
            /\ UNCHANGED <<page, page_source, locals>>
    /\ pc' = "done"
    /\ UNCHANGED <<op, current_url, post_source, driver_raises, arg,
                   mapped_fields, val>>

Next ==
    \/ MapFormFieldsCall
    \/ FillBasicFieldsStep
    \/ HandleResumeUploadStep
    \/ FillAdditionalQuestionsStep
    \/ AddCoverLetterStep
    \/ SubmitStep
    \/ EasyApplyWaitStep
    \/ EasyApplyUploadStep
    \/ EasyApplyQuestionsStep
    \/ EasyApplyCoverStep
    \/ EasyApplySubmitStep

Spec == Init /\ [][Next]_vars

-----------------------------------------------------------------------------
(* The public operations of ExternalFormMapper called one by one *)

\* Pages with controls whose calls raise.
BoundaryPages ==
    {e \o u \o a \o b :
        e \in EmailSlots \cup {<<[EmailInput EXCEPT !.raises = {"send_keys"}]>>,
                               <<[EmailInput EXCEPT !.raises = {"clear"}]>>},
        u \in UploadSlots,
        a \in AreaSlots
               \cup {<<[Element("textarea", "textarea", "cover_letter")
                         EXCEPT !.raises = {"send_keys"}]>>,
                     <<[Element("textarea", "textarea", "message")
                         EXCEPT !.raises = {"is_displayed"}]>>},
        b \in SubmitSlots}

BoundaryRaises == {{}, {"find_elements"}, {"find_element"}, {"page_source"}}

\* What an operation leaves behind when it returns to its caller.
Returned == "<returned>"

\* The public operations of ExternalFormMapper that act on located controls.
ControlOperations ==
    {"human_type", "fill_basic_fields", "handle_resume_upload",
     "fill_additional_questions", "add_cover_letter", "submit_form"}

\* One public operation called on a page whose fields were mapped while the
\* driver answered; val is Raised when an exception leaves the operation and
\* Returned otherwise.
InitBoundary ==
    /\ op \in ControlOperations
    /\ pc = "ready"
    /\ page \in BoundaryPages
    /\ op = "human_type" => page # <<>>
    /\ current_url = ""
    /\ page_source = ""
    /\ post_source = "<h1>Thank you</h1>"
    /\ arg \in {[text |-> t, resume_file |-> "/home/me/resume.pdf",
                 profile_data |-> d] :
                    t \in {"", "Dear hiring manager"}, d \in Profiles}
    /\ driver_raises \in BoundaryRaises
    /\ mapped_fields = MapFormFields("generic", page, {})
    /\ locals = <<>>
    /\ ret = FALSE
    /\ val = None

\* human_type(element, text) on the first control of the page: no handler
\* stands between send_keys and the caller.
HumanTypeCall ==
    /\ pc = "ready"
    /\ op = "human_type"
    /\ LET r == HumanType(page[1], arg.text)
       IN  /\ page' = Put(page, 1, r.field)
           /\ val' = IF r.ok THEN Returned ELSE Raised
    /\ pc' = "done"
    /\ UNCHANGED <<op, current_url, page_source, post_source, driver_raises,
                   arg, mapped_fields, locals, ret>>

FillBasicFieldsCall ==
    /\ pc = "ready"
    /\ op = "fill_basic_fields"
    /\ page' = FillBasicFields(page, mapped_fields, arg.profile_data)
    /\ val' = Returned
    /\ pc' = "done"
    /\ UNCHANGED <<op, current_url, page_source, post_source, driver_raises,
                   arg, mapped_fields, locals, ret>>

HandleResumeUploadCall ==
    /\ pc = "ready"
    /\ op = "handle_resume_upload"
    /\ LET r == HandleResumeUpload(page, mapped_fields.resume_upload,
                                   arg.resume_file)
       IN  /\ page' = r.dom
           /\ ret' = r.ret
    /\ val' = Returned
    /\ pc' = "done"
    /\ UNCHANGED <<op, current_url, page_source, post_source, driver_raises,
                   arg, mapped_fields, locals>>

FillAdditionalQuestionsCall ==
    /\ pc = "ready"
    /\ op = "fill_additional_questions"
    /\ LET r == FillAdditionalQuestions(page, driver_raises)
       IN  /\ page' = r.dom
           /\ ret' = (r.count > 0)
    /\ val' = Returned
    /\ pc' = "done"
    /\ UNCHANGED <<op, current_url, page_source, post_source, driver_raises,
                   arg, mapped_fields, locals>>

AddCoverLetterCall ==
    /\ pc = "ready"
    /\ op = "add_cover_letter"
    /\ LET r == AddCoverLetter(page, arg.text, driver_raises)
       IN  /\ page' = r.dom
           /\ ret' = r.ret
    /\ val' = Returned
    /\ pc' = "done"
    /\ UNCHANGED <<op, current_url, page_source, post_source, driver_raises,
                   arg, mapped_fields, locals>>

SubmitFormCall ==
    /\ pc = "ready"
    /\ op = "submit_form"
    /\ LET r == SubmitForm(page, mapped_fields.submit_button, page_source,
                           post_source, driver_raises)
       IN  /\ page' = r.dom
           /\ page_source' = r.source
           /\ ret' = r.ret
    /\ val' = Returned
    /\ pc' = "done"
    /\ UNCHANGED <<op, current_url, post_source, driver_raises, arg,
                   mapped_fields, locals>>

NextBoundary ==
    \/ HumanTypeCall
    \/ FillBasicFieldsCall
    \/ HandleResumeUploadCall
    \/ FillAdditionalQuestionsCall
    \/ AddCoverLetterCall
    \/ SubmitFormCall

SpecBoundary == InitBoundary /\ [][NextBoundary]_vars

-----------------------------------------------------------------------------
(* map_form_fields called on its own *)

\* The system types handed to map_form_fields: the vendors of the table,
\* generic, and what the table does not know.
MapperSystemTypes ==
    {"workday", "lever", "greenhouse", "bamboo", "generic", "unknown",
     "taleo"}

MapperControls ==
    LocatorControls
    \cup {[BlankElement EXCEPT !.type = "tel", !.name = "phone"],
          [BlankElement EXCEPT !.type = "email", !.name = "name"]}

MapperPages == SeqsUpTo(MapperControls, MaxControls)

InitMapper ==
    /\ op = "map_form_fields"
    /\ pc = "map"
    /\ page \in MapperPages
    /\ current_url = ""
    /\ page_source = ""
    /\ post_source = ""
    /\ arg \in {[system_type |-> t] : t \in MapperSystemTypes}
    /\ driver_raises \in {{}, {"find_elements"}}
    /\ mapped_fields = NoMapping
    /\ locals = <<>>
    /\ ret = FALSE
    /\ val = None

SpecMapper == InitMapper /\ [][MapFormFieldsCall]_vars

-----------------------------------------------------------------------------
(* fill_basic_fields called on the mapping of a page, loop by loop *)

PhoneInput == Element("input", "tel", "phone")

BasicNameSlots ==
    {<<>>, <<NameInput>>, <<[NameInput EXCEPT !.value = "Bob"]>>,
     <<[NameInput EXCEPT !.raises = {"get_attribute"}]>>,
     <<[NameInput EXCEPT !.raises = {"send_keys"}]>>,
     <<[NameInput EXCEPT !.raises = {"clear"}]>>}

BasicEmailSlots ==
    {<<>>, <<EmailInput>>,
     <<[EmailInput EXCEPT !.placeholder = "name@example.com"]>>,
     <<[EmailInput EXCEPT !.raises = {"get_attribute"}]>>,
     <<[EmailInput EXCEPT !.value = "me@example.com"],
       [EmailInput EXCEPT !.id = "email2"]>>,
     <<[EmailInput EXCEPT !.raises = {"send_keys"}],
       [EmailInput EXCEPT !.id = "email2"]>>}

BasicPhoneSlots ==
    {<<>>, <<PhoneInput>>, <<[PhoneInput EXCEPT !.value = "+1 555 0100"]>>}

BasicPages ==
    {n \o e \o p : n \in BasicNameSlots, e \in BasicEmailSlots,
                   p \in BasicPhoneSlots}

InitBasic ==
    /\ op = "fill_basic_fields"
    /\ pc = "map"
    /\ page \in BasicPages
    /\ current_url = ""
    /\ page_source = ""
    /\ post_source = ""
    /\ arg \in {[system_type |-> t, profile_data |-> d, page |-> page] :
                   t \in {"generic", "lever"}, d \in Profiles}
    /\ driver_raises = {}
    /\ mapped_fields = NoMapping
    /\ locals = <<>>
    /\ ret = FALSE
    /\ val = None

\* fill_basic_fields, lines 212-216: the loop over the name candidates;
\* an exception raised inside a loop is caught at line 234, behind the last
\* loop.
FillNameFields ==
    /\ op = "fill_basic_fields"
    /\ pc = "basic"
    /\ LET r == FillFirstEmpty(page, mapped_fields.name_fields, "name",
                               arg.profile_data)
       IN  /\ page' = r.dom
           /\ pc' = IF r.ok THEN "basic_email" ELSE "upload"
    /\ UNCHANGED <<op, current_url, page_source, post_source, driver_raises,
                   arg, mapped_fields, locals, ret, val>>

\* fill_basic_fields, lines 219-223: the loop over the email candidates.
FillEmailFields ==
    /\ op = "fill_basic_fields"
    /\ pc = "basic_email"
    /\ LET r == FillFirstEmpty(page, mapped_fields.email_fields, "email",
                               arg.profile_data)
       IN  /\ page' = r.dom
           /\ pc' = IF r.ok THEN "basic_phone" ELSE "upload"
    /\ UNCHANGED <<op, current_url, page_source, post_source, driver_raises,
                   arg, mapped_fields, locals, ret, val>>

\* fill_basic_fields, lines 226-230: the loop over the phone candidates.
FillPhoneFields ==
    /\ op = "fill_basic_fields"
    /\ pc = "basic_phone"
    /\ LET r == FillFirstEmpty(page, mapped_fields.phone_fields, "phone",
                               arg.profile_data)
       IN  /\ page' = r.dom
           /\ pc' = IF r.ok THEN "upload" ELSE "upload"
    /\ UNCHANGED <<op, current_url, page_source, post_source, driver_raises,
                   arg, mapped_fields, locals, ret, val>>

NextBasic ==
    \/ MapFormFieldsCall
    \/ FillNameFields
    \/ FillEmailFields
    \/ FillPhoneFields

SpecBasic == InitBasic /\ [][NextBasic]_vars

-----------------------------------------------------------------------------
(* submit_form called on a list of candidates *)

\* Most submit candidates handed to submit_form.
MaxCandidates == 3

SubmitCandidates ==
    {SubmitButton, [SubmitButton EXCEPT !.enabled = FALSE],
     [SubmitButton EXCEPT !.raises = {"click"}],
     [SubmitButton EXCEPT !.raises = {"is_enabled"}]}

\* submit_form(submit_fields) with every control of the page a candidate, in
\* document order.
InitSubmit ==
    /\ op = "submit_form"
    /\ pc = "ready"
    /\ page \in SeqsUpTo(SubmitCandidates, MaxCandidates)
    /\ current_url = ""
    /\ page_source = "<h1>Apply</h1>"
    /\ post_source \in PostSources
    /\ arg = <<>>
    /\ driver_raises \in {{}, {"page_source"}}
    /\ mapped_fields =
          [NoMapping EXCEPT !.submit_button = [i \in 1..Len(page) |-> i]]
    /\ locals = <<>>
    /\ ret = FALSE
    /\ val = None

SpecSubmit == InitSubmit /\ [][SubmitFormCall]_vars

-----------------------------------------------------------------------------
(* fill_additional_questions called on a page of question controls *)

\* Most controls on a page of questions.
MaxQuestions == 3

QuestionControls ==
    {Element("input", "tel", "mobile"),
     [Element("input", "tel", "mobile") EXCEPT !.displayed = FALSE],
     [Element("input", "tel", "mobile") EXCEPT !.value = "+1 555 0100"],
     [Element("input", "checkbox", "agree") EXCEPT !.required = "true"],
     Element("input", "url", "link"),
     Element("input", "text", "q1"),
     [Element("input", "text", "q1") EXCEPT !.raises = {"send_keys"}],
     Element("textarea", "textarea", "skills")}

InitQuestions ==
    /\ op = "fill_additional_questions"
    /\ pc = "questions"
    /\ page \in SeqsUpTo(QuestionControls, MaxQuestions)
    /\ current_url = ""
    /\ page_source = ""
    /\ post_source = ""
    /\ arg = [page |-> page]
    /\ driver_raises \in {{}, {"find_elements"}}
    /\ mapped_fields = NoMapping
    /\ locals = NoLocals
    /\ ret = FALSE
    /\ val = None

SpecQuestions == InitQuestions /\ [][FillAdditionalQuestionsStep]_vars

-----------------------------------------------------------------------------
(* LinkedInApplicationHandler.handle_application_form, called repeatedly on *)
(* one handler                                                              *)

\* Most calls of handle_application_form on one handler.
MaxCalls == 2

ApplyButton ==
    [BlankElement EXCEPT !.tag = "button",
                         !.data_control_name = "jobdetails_topcard_inapply"]

ApplyButtonSlots ==
    {<<>>, <<ApplyButton>>, <<[ApplyButton EXCEPT !.raises = {"click"}]>>,
     <<[BlankElement EXCEPT !.tag = "button", !.text = "Apply now"]>>}

EasyApplyMarkerSlots ==
    {<<>>, <<EasyApplyContent>>,
     <<[BlankElement EXCEPT !.tag = "form", !.class = "jobs-easy-apply-form"]>>}

HandlerUploadSlots ==
    {<<>>, <<FileInput>>, <<[FileInput EXCEPT !.raises = {"send_keys"}]>>}

HandlerSubmitSlots ==
    {<<>>, <<EasyApplySubmit>>, <<[EasyApplySubmit EXCEPT !.raises = {"click"}]>>}

ExternalLinkSlots ==
    {<<>>,
     <<[BlankElement EXCEPT !.tag = "a",
                            !.href = "https://careers.example.com/apply"]>>}

HandlerPages ==
    {b \o m \o u \o s \o x :
        b \in ApplyButtonSlots, m \in EasyApplyMarkerSlots,
        u \in HandlerUploadSlots, s \in HandlerSubmitSlots,
        x \in ExternalLinkSlots}

HandlerUrls ==
    {"https://www.linkedin.com/jobs/view/1", "https://careers.example.com/1"}

HandlerPostSources ==
    {"<h1>Application submitted</h1>", "<p>Something went wrong</p>"}

\* The handler's fields and what one call has done so far: temp_files is
\* self.temp_files; created and removed are the temporary resume files that
\* came to exist and that cleanup_temp_files handed to os.remove, each with
\* the number of the call that made it (mkdtemp gives every call a directory
\* of its own); the flags tell which steps of the current call have run.
NewCall(temp_files, created, removed, calls) ==
    [temp_files |-> temp_files, created |-> created, removed |-> removed,
     calls |-> calls, apply_clicked |-> FALSE, easy_apply_detected |-> FALSE,
     easy_apply_ran |-> FALSE, resume_uploaded |-> FALSE,
     submit_invoked |-> FALSE, submit_result |-> FALSE,
     external_ran |-> FALSE, application_success |-> FALSE]

InitHandler ==
    /\ op = "handle_application_form"
    /\ pc = "start"
    /\ page \in HandlerPages
    /\ current_url \in HandlerUrls
    /\ page_source = ""
    /\ post_source \in HandlerPostSources
    /\ driver_raises \in {{}, {"save_screenshot"}}
    /\ arg \in {[job_info_ok |-> j, temp |-> t, lenient |-> l,
                 cover_letter |-> "Dear hiring manager", page |-> page] :
                   j \in BOOLEAN, t \in TempOutcomes, l \in BOOLEAN}
    /\ mapped_fields = NoMapping
    /\ locals = NewCall(<<>>, {}, {}, 1)
    /\ ret = FALSE
    /\ val = None

\* handle_application_form, lines 31-37 and 55-58: job_info['title'] (a
\* KeyError goes to the handler of line 55: cleanup, False), then
\* find_and_click_apply_button; without a clicked button the method returns
\* False at line 37.
HandlerFindApplyButton ==
    /\ op = "handle_application_form"
    /\ pc = "start"
    /\ IF ~arg.job_info_ok
       THEN LET c == CleanupTempFiles(locals.temp_files)
            IN  /\ locals' = [locals EXCEPT
                                !.temp_files = c.temp_files,
                                !.removed = @ \cup
                                    {<<locals.calls, f>> : f \in c.removed}]
                /\ pc' = "returned"
                /\ ret' = FALSE
                /\ page' = page
       ELSE LET r == FindAndClickApplyButton(page, apply_selectors,
                                             driver_raises, arg.lenient)
            IN  /\ page' = r.dom
                /\ locals' = [locals EXCEPT !.apply_clicked = r.ret]
                /\ pc' = IF r.ret THEN "detect" ELSE "returned"
                /\ ret' = FALSE
    /\ UNCHANGED <<op, current_url, page_source, post_source, driver_raises,
                   arg, mapped_fields, val>>

\* handle_application_form, lines 40-43: is_linkedin_easy_apply.
HandlerDetect ==
    /\ pc = "detect"
    /\ LET d == IsLinkedinEasyApply(page, easy_apply_indicators, driver_raises)
       IN  /\ locals' = [locals EXCEPT !.easy_apply_detected = d]
           /\ pc' = IF d THEN "easy_apply" ELSE "external"
    /\ UNCHANGED <<op, page, current_url, page_source, post_source,
                   driver_raises, arg, mapped_fields, ret, val>>

\* What handle_application_form keeps of the result r of
\* handle_linkedin_easy_apply: application_success (line 44), with the
\* handler's temp_files and the files that came to exist.
EasyApplyReturned(r) ==
    /\ page' = r.dom
    /\ page_source' = r.source
    /\ locals' = [locals EXCEPT
                    !.temp_files = r.temp_files,
                    !.created =
                        IF r.ran_upload /\ arg.temp # "failed"
                        THEN @ \cup {<<locals.calls,
                                       TempResumeFile(Len(locals.temp_files)
                                                      + 1)>>}
                        ELSE @,
                    !.easy_apply_ran = TRUE,
                    !.resume_uploaded = r.resume_uploaded,
                    !.submit_invoked = r.submit_invoked,
                    !.submit_result = r.submit_result,
                    !.application_success = r.ret]
    /\ pc' = IF r.ret THEN "cleanup" ELSE "external"

\* handle_application_form, lines 44 and 47: handle_linkedin_easy_apply; the
\* test of line 47 sends a call whose application_success is still False to
\* handle_external_application.
HandlerEasyApply ==
    /\ pc = "easy_apply"
    /\ EasyApplyReturned(HandleLinkedinEasyApply(page, locals.temp_files,
                                                 arg.temp, arg.cover_letter,
                                                 page_source, post_source,
                                                 driver_raises))
    /\ UNCHANGED <<op, current_url, post_source, driver_raises, arg,
                   mapped_fields, ret, val>>

\* handle_application_form, line 48: handle_external_application.
HandlerExternal ==
    /\ pc = "external"
    /\ LET r == HandleExternalApplication(page, current_url, driver_raises)
       IN  /\ page' = r.dom
           /\ locals' = [locals EXCEPT !.external_ran = TRUE,
                                       !.application_success = r.ret]
    /\ pc' = "cleanup"
    /\ UNCHANGED <<op, current_url, page_source, post_source, driver_raises,
                   arg, mapped_fields, ret, val>>

\* handle_application_form, lines 51-53: cleanup_temp_files and the return
\* of application_success.
HandlerCleanup ==
    /\ pc = "cleanup"
    /\ LET c == CleanupTempFiles(locals.temp_files)
       IN  locals' = [locals EXCEPT
                        !.temp_files = c.temp_files,
                        !.removed = @ \cup
                            {<<locals.calls, f>> : f \in c.removed}]
    /\ ret' = locals.application_success
    /\ pc' = "returned"
    /\ UNCHANGED <<op, page, current_url, page_source, post_source,
                   driver_raises, arg, mapped_fields, val>>

\* The next call of handle_application_form on the same handler: the page
\* is loaded again, the handler keeps its temp_files.
HandlerNextCall ==
    /\ op = "handle_application_form"
    /\ pc = "returned"
    /\ locals.calls < MaxCalls
    /\ \E t \in TempOutcomes : arg' = [arg EXCEPT !.temp = t]
    /\ page' = arg.page
    /\ page_source' = ""
    /\ locals' = NewCall(locals.temp_files, locals.created, locals.removed,
                         locals.calls + 1)
    /\ pc' = "start"
    /\ ret' = FALSE
    /\ UNCHANGED <<op, current_url, post_source, driver_raises,
                   mapped_fields, val>>

NextHandler ==
    \/ HandlerFindApplyButton
    \/ HandlerDetect
    \/ HandlerEasyApply
    \/ HandlerExternal
    \/ HandlerCleanup
    \/ HandlerNextCall

SpecHandler == InitHandler /\ [][NextHandler]_vars

-----------------------------------------------------------------------------
(* LinkedInJobAgent.run_job_search_session *)

\* Most jobs the first search finds, most of them the second search finds
\* again, and most applications that fail in one session.
MaxJobs == 17

MaxDuplicates == 1

MaxFailures == 2

Job(id, location) ==
    [job_id |-> id, location |-> location, keyword_matched |-> "data_engineer"]

\* The cards of the first search: n jobs in Singapore and one in London.
FirstCards(n) ==
    [k \in 1..(n + 1) |-> IF k <= n THEN Job(k, "Singapore")
                          ELSE Job(k, "London, United Kingdom")]

\* The cards of the second search: the first d jobs again.
SecondCards(d) == [k \in 1..d |-> Job(k, "Singapore")]

\* How many jobs the first search finds: few, or enough for the count of
\* applications to pass break_interval.
JobCounts == (0..3) \cup {MaxJobs}

MaxApplicationsChoices == {0, 2, 16, 50}

\* The agent's fields and the locals of run_job_search_session.  created
\* tells whether a browser exists, quit_calls counts driver.quit(),
\* after_quit whether the browser was used after it; apply_calls are the
\* job_ids apply_to_job was called with and breaks the values of
\* applications_count at the calls of take_break.
NewAgent ==
    [driver |-> None, created |-> FALSE, quit_calls |-> 0,
     after_quit |-> FALSE, jobs_applied |-> <<>>, all_jobs |-> <<>>,
     sorted_jobs |-> <<>>, index |-> 1, applications_count |-> 0,
     apply_calls |-> <<>>, breaks |-> <<>>, failures |-> 0,
     saved |-> FALSE]

InitSession ==
    /\ op = "run_job_search_session"
    /\ pc = "setup"
    /\ page = <<>>
    /\ current_url = ""
    /\ page_source = ""
    /\ post_source = ""
    /\ driver_raises = {}
    /\ arg \in {[searches |-> <<[cards |-> FirstCards(n), failed |-> FALSE],
                               [cards |-> SecondCards(IF d < n THEN d ELSE n),
                                failed |-> FALSE],
                               [cards |-> FirstCards(n), failed |-> TRUE]>>,
                 max_applications |-> m, delays_configured |-> c] :
                   n \in JobCounts, m \in MaxApplicationsChoices,
                   d \in 0..MaxDuplicates,
                   c \in BOOLEAN}
    /\ mapped_fields = NoMapping
    /\ locals = NewAgent
    /\ ret = FALSE
    /\ val = None

\* Whether the browser is used after driver.quit().
UsedAfterQuit == locals.after_quit \/ locals.quit_calls > 0

\* run_job_search_session, line 870: setup_driver; what it raises goes to
\* the handler of line 920 and on to the finally clause.
SessionSetup ==
    /\ pc = "setup"
    /\ \E o \in SetupOutcomes :
          LET r == SetupDriver(o)
          IN  /\ locals' = [locals EXCEPT !.driver = r.driver,
                                          !.created = r.created]
              /\ pc' = IF r.raised THEN "finally" ELSE "login"
    /\ UNCHANGED <<op, page, current_url, page_source, post_source,
                   driver_raises, arg, mapped_fields, ret, val>>

\* run_job_search_session, line 871: login_to_linkedin, which raises again
\* what it caught.
SessionLogin ==
    /\ pc = "login"
    /\ locals' = [locals EXCEPT !.after_quit = UsedAfterQuit]
    /\ \E logged_in \in BOOLEAN :
          pc' = IF logged_in THEN "search" ELSE "finally"
    /\ UNCHANGED <<op, page, current_url, page_source, post_source,
                   driver_raises, arg, mapped_fields, ret, val>>

\* run_job_search_session, lines 874-879: the searches.
SessionSearch ==
    /\ pc = "search"
    /\ locals' = [locals EXCEPT
                    !.all_jobs = SearchAll(arg.searches, locals.jobs_applied,
                                           <<>>),
                    !.after_quit = UsedAfterQuit]
    /\ pc' = "rank"
    /\ UNCHANGED <<op, page, current_url, page_source, post_source,
                   driver_raises, arg, mapped_fields, ret, val>>

\* run_job_search_session, lines 882-889: remove_duplicate_jobs,
\* sort_jobs_by_relevance and the start of the loop.
SessionRank ==
    /\ pc = "rank"
    /\ \E sorted_jobs \in
            SortJobsByRelevance(RemoveDuplicateJobs(locals.all_jobs)) :
          locals' = [locals EXCEPT !.sorted_jobs = sorted_jobs, !.index = 1,
                                   !.applications_count = 0]
    /\ pc' = "loop"
    /\ UNCHANGED <<op, page, current_url, page_source, post_source,
                   driver_raises, arg, mapped_fields, ret, val>>

\* run_job_search_session, lines 891-911: one iteration that does not
\* break: take_break when it is due, apply_to_job, and after a success the
\* count, jobs_applied (apply_to_job, line 758) and the delay, whose missing
\* configuration raises KeyError.
SessionApply ==
    /\ pc = "loop"
    /\ locals.index <= Len(locals.sorted_jobs)
    /\ ~CapReached(locals.applications_count, arg.max_applications)
    /\ \E success \in BOOLEAN :
          /\ ~success => locals.failures < MaxFailures
          /\ LET job == locals.sorted_jobs[locals.index]
             IN  locals' = [locals EXCEPT
                    !.breaks = IF BreakDue(locals.applications_count)
                               THEN Append(@, locals.applications_count)
                               ELSE @,
                    !.apply_calls = Append(@, job.job_id),
                    !.jobs_applied = IF success THEN Append(@, job) ELSE @,
                    !.applications_count = IF success THEN @ + 1 ELSE @,
                    !.failures = IF success THEN @ ELSE @ + 1,
                    !.index = @ + 1,
                    !.after_quit = UsedAfterQuit]
          /\ pc' = IF success /\ ~arg.delays_configured THEN "finally"
                   ELSE "loop"
    /\ UNCHANGED <<op, page, current_url, page_source, post_source,
                   driver_raises, arg, mapped_fields, ret, val>>

\* run_job_search_session, lines 891-893 and 916: the loop ends, by its
\* break or at the end of the list.
SessionLoopEnd ==
    /\ pc = "loop"
    /\ \/ locals.index > Len(locals.sorted_jobs)
       \/ CapReached(locals.applications_count, arg.max_applications)
    /\ pc' = "save"
    /\ UNCHANGED <<op, page, current_url, page_source, post_source,
                   driver_raises, arg, mapped_fields, locals, ret, val>>

\* run_job_search_session, line 917: save_session_results, which may raise.
SessionSave ==
    /\ pc = "save"
    /\ \E saved \in BOOLEAN : locals' = [locals EXCEPT !.saved = saved]
    /\ pc' = "finally"
    /\ UNCHANGED <<op, page, current_url, page_source, post_source,
                   driver_raises, arg, mapped_fields, ret, val>>

\* run_job_search_session, lines 922-924: the finally clause.
SessionFinally ==
    /\ pc = "finally"
    /\ locals' = [locals EXCEPT
                    !.quit_calls = IF locals.driver # None THEN @ + 1 ELSE @]
    /\ pc' = "done"
    /\ UNCHANGED <<op, page, current_url, page_source, post_source,
                   driver_raises, arg, mapped_fields, ret, val>>

NextSession ==
    \/ SessionSetup
    \/ SessionLogin
    \/ SessionSearch
    \/ SessionRank
    \/ SessionApply
    \/ SessionLoopEnd
    \/ SessionSave
    \/ SessionFinally

SpecSession == InitSession /\ [][NextSession]_vars

\* The session is one sequential run whose every wait and pause is bounded
\* (WebDriverWait timeouts, time.sleep), so a step that can be taken is
\* taken.
SpecSessionLive == SpecSession /\ WF_vars(NextSession)







-----------------------------------------------------------------------------
(* Phrase sets the claims are stated with *)

SuccessPhrases ==
    {"thank you", "application submitted", "application received",
     "successfully applied", "application complete", "confirmation"}

ErrorPhrases ==
    {"error occurred", "application failed", "please try again",
     "something went wrong", "validation error"}

HasPhrase(P, text) == \E w \in P : Contains(w, Lower(text))

-----------------------------------------------------------------------------
(* Claims about the form fill *)

\* The positions of either operation that follow its upload step (or, for
\* handle_linkedin_easy_apply, the timeout of its wait for the form).
AfterUpload ==
    \/ op = "fill_application_form"
         /\ pc \in {"questions", "cover", "submit", "done"}
    \/ op = "handle_linkedin_easy_apply"
         /\ pc \in {"ea_questions", "ea_cover", "ea_submit", "done"}

\* Element e received a click() call (one that went through, or one that
\* raised).
ClickAttempted(e) == \E k \in 1..Len(e.log) : e.log[k].m = "click"

\* Element e received a click() call that went through.
Clicked(e) == \E k \in 1..Len(e.log) : e.log[k] = Call("click", "")

\* C1: in fill_application_form and in handle_linkedin_easy_apply, once the
\* resume upload step has returned false, the submission step is never
\* invoked, no control receives a click, and the operation returns false.
C1_UploadGate ==
    (AfterUpload /\ ~locals.resume_uploaded) =>
        /\ ~locals.submit_invoked
        /\ \A i \in 1..Len(page) : ~ClickAttempted(page[i])
        /\ pc = "done" => ret = FALSE

\* fill_application_form ended after an upload call that raised, on a page
\* with a located submit candidate.
C1_Witness ==
    /\ op = "fill_application_form"
    /\ pc = "done"
    /\ mapped_fields.resume_upload # <<>>
    /\ mapped_fields.submit_button # <<>>
    /\ ~locals.resume_uploaded
    /\ ~locals.submit_invoked
    /\ ret = FALSE

\* fill_application_form is past a failed upload step.
UploadFailed ==
    /\ op = "fill_application_form"
    /\ pc \in {"questions", "cover", "submit", "done"}
    /\ ~locals.resume_uploaded

\* C2 as stated: once handle_resume_upload has failed inside
\* fill_application_form, no later step touches the page (no control is
\* filled, no cover letter typed, no submit attempted) and the outcome is
\* failure.
C2_AsStated ==
    [][UploadFailed => (page' = page /\ (pc' = "done" => ret' = FALSE))]_vars

\* A visible, enabled textarea, free of failures, that the first cover-letter
\* selector finds.
CoverLetterArea(e) ==
    /\ e.tag = "textarea"
    /\ e.name # None /\ Contains("cover", e.name)
    /\ e.displayed /\ e.enabled /\ e.raises = {}

\* C2 amended: once handle_resume_upload has failed inside
\* fill_application_form, no submit is attempted and the outcome is failure;
\* the additional-question and cover-letter steps are still performed, so a
\* cover-letter textarea of the page is still typed into.
C2_UploadFailureSkipsSubmitOnly ==
    UploadFailed =>
        /\ ~locals.submit_invoked
        /\ \A i \in 1..Len(page) : ~ClickAttempted(page[i])
        /\ pc = "done" => ret = FALSE
        /\ (pc \in {"submit", "done"} /\ driver_raises = {}
              /\ \E i \in 1..Len(page) : CoverLetterArea(page[i])) =>
                  /\ locals.cover_letter_added
                  /\ \E i \in 1..Len(page) :
                        /\ CoverLetterArea(page[i])
                        /\ page[i].value = arg.cover_letter

\* The fill ended in failure after a failed upload, with the cover letter
\* typed into the page all the same.
C2_Witness ==
    /\ UploadFailed
    /\ pc = "done"
    /\ ret = FALSE
    /\ locals.cover_letter_added
    /\ \E i \in 1..Len(page) : page[i].value = arg.cover_letter

\* The page the fill started on holds an empty email input, a visible and
\* enabled file-upload control whose upload succeeds and an enabled submit
\* candidate whose click succeeds; the driver itself does not fail.
ScenarioPage ==
    /\ driver_raises = {}
    /\ \E i \in 1..Len(arg.page) :
          /\ arg.page[i].tag = "input" /\ arg.page[i].name = "email"
          /\ ~Truthy(arg.page[i].value)
    /\ \E i \in 1..Len(arg.page) :
          /\ arg.page[i].tag = "input" /\ arg.page[i].type = "file"
          /\ arg.page[i].displayed /\ arg.page[i].enabled
          /\ arg.page[i].raises = {}
    /\ \E i \in 1..Len(arg.page) :
          /\ arg.page[i].type = "submit"
          /\ arg.page[i].displayed /\ arg.page[i].enabled
          /\ arg.page[i].raises = {}

\* C4: on such a page fill_application_form uploads the resume, clicks a
\* submit candidate and returns success, when the post-submit markup contains
\* a success phrase and when it contains neither a success nor an error
\* phrase.
C4_EndToEndFill ==
    (op = "fill_application_form" /\ pc = "done" /\ ScenarioPage
       /\ (HasPhrase(SuccessPhrases, post_source)
             \/ ~HasPhrase(ErrorPhrases, post_source))) =>
        /\ locals.resume_uploaded
        /\ locals.submit_invoked
        /\ \E i \in 1..Len(page) : page[i].type = "submit" /\ Clicked(page[i])
        /\ \E i \in 1..Len(page) :
              page[i].type = "file" /\ page[i].value = arg.resume_file
        /\ page_source = post_source
        /\ ret = TRUE

\* The scenario ended in success on a post-submit page without any signal.
C4_Witness ==
    /\ op = "fill_application_form"
    /\ pc = "done"
    /\ ScenarioPage
    /\ ~HasPhrase(SuccessPhrases, post_source)
    /\ ~HasPhrase(ErrorPhrases, post_source)
    /\ locals.resume_uploaded
    /\ ret = TRUE

-----------------------------------------------------------------------------
(* Claims about the single operations *)

OutcomeDone == pc = "done" /\ op = "check_submission_success"

\* C3: for every readable post-submit page text, check_submission_success
\* answers success when the lower-cased text contains a success phrase (also
\* when it contains an error phrase too), failure when it contains an error
\* phrase and no success phrase, and success when it contains neither.
C3_OutcomeClassification ==
    (OutcomeDone /\ "page_source" \notin driver_raises) =>
        /\ HasPhrase(SuccessPhrases, page_source) => ret = TRUE
        /\ (~HasPhrase(SuccessPhrases, page_source)
              /\ HasPhrase(ErrorPhrases, page_source)) => ret = FALSE
        /\ (~HasPhrase(SuccessPhrases, page_source)
              /\ ~HasPhrase(ErrorPhrases, page_source)) => ret = TRUE

\* A text with a success phrase and an error phrase was classified a success.
C3_Witness ==
    /\ OutcomeDone
    /\ "page_source" \notin driver_raises
    /\ HasPhrase(SuccessPhrases, page_source)
    /\ HasPhrase(ErrorPhrases, page_source)
    /\ ret = TRUE

ClassifierDone == pc = "done" /\ op = "should_fill_additional_field"

\* C5: should_fill_additional_field answers False for every control whose
\* current value is non-empty, whatever its other attributes are.
C5_ValuedControlRejected ==
    (ClassifierDone /\ Truthy(page[1].value)) => ret = FALSE

\* A visible, enabled, required text control with a value was rejected.
C5_Witness ==
    /\ ClassifierDone
    /\ Truthy(page[1].value)
    /\ page[1].displayed /\ page[1].enabled /\ page[1].raises = {}
    /\ page[1].required = "true"
    /\ page[1].type = "text"
    /\ ret = FALSE

RelevantTypeSet == {"text", "email", "tel", "number", "url"}

RelevantNameSet ==
    {"experience", "years", "skills", "education", "location", "salary",
     "availability"}

\* The control's name/id: its name, or its id when it has no name.
NameOrId(f) ==
    IF Truthy(f.name) THEN f.name ELSE IF Truthy(f.id) THEN f.id ELSE ""

\* An attribute that marks the control as required: present and not "false".
MarksRequired(a) == a \notin {None, "", "false"}

\* The decision table of the field classifier.
ClassifierTable(f) ==
    /\ f.displayed
    /\ f.enabled
    /\ ~Truthy(f.value)
    /\ \/ MarksRequired(f.required)
       \/ MarksRequired(f.aria_required)
       \/ f.type \in RelevantTypeSet
       \/ HasPhrase(RelevantNameSet, NameOrId(f))
       \/ HasPhrase(RelevantNameSet, PyOr(f.placeholder, ""))

\* C6: should_fill_additional_field answers True exactly when the control is
\* visible, enabled, has an empty value and is marked required by either
\* attribute, or has a relevant type, or carries a relevant keyword in its
\* lower-cased name/id or placeholder; a control that raises on attribute
\* access is rejected.
C6_ClassifierDecisionTable ==
    ClassifierDone =>
        /\ page[1].raises = {} => (ret = ClassifierTable(page[1]))
        /\ "get_attribute" \in page[1].raises => ret = FALSE

\* C6 the decision table restricted to the controls that do not carry
\* aria-required="false".
C6_TableWithoutAriaFalse ==
    (ClassifierDone /\ page[1].aria_required # "false") =>
        /\ page[1].raises = {} => (ret = ClassifierTable(page[1]))
        /\ "get_attribute" \in page[1].raises => ret = FALSE

ResolverDone == pc = "done" /\ op = "get_additional_field_value"

\* The keyword rules in their listed order.
KeywordRules ==
    <<[keys |-> {"experience", "years"}, literal |-> "5"],
      [keys |-> {"skills", "technologies"},
       literal |-> "Python, SQL, Data Engineering, AWS, Apache Spark"],
      [keys |-> {"education", "degree"},
       literal |-> "Bachelor's Degree in Computer Science"],
      [keys |-> {"location", "city"}, literal |-> "Singapore"],
      [keys |-> {"salary", "compensation"}, literal |-> "Negotiable"],
      [keys |-> {"availability", "start date"}, literal |-> "Immediate"],
      [keys |-> {"portfolio", "github", "website"},
       literal |-> "https://github.com/username"]>>

\* The rules with a keyword in the lower-cased name + " " + placeholder.
RulesHit(a) ==
    {k \in 1..Len(KeywordRules) :
        HasPhrase(KeywordRules[k].keys,
                  a.field_name \o " " \o a.field_placeholder)}

TypeDefault(t) ==
    CASE t = "text" -> "See resume for details"
      [] t = "number" -> "5"
      [] t = "email" -> "john.doe@example.com"
      [] OTHER -> None

\* C7: get_additional_field_value returns the literal of the first keyword
\* rule, in the listed order, with a keyword in the lower-cased
\* name+placeholder text; the type defaults apply only when no rule matches;
\* otherwise the value is absent.  A control named years_of_experience with
\* an empty placeholder resolves to "5" for every type.
C7_FirstMatchTable ==
    ResolverDone =>
        /\ RulesHit(arg) # {} =>
              val = KeywordRules[FirstOf(RulesHit(arg))].literal
        /\ RulesHit(arg) = {} => val = TypeDefault(arg.field_type)
        /\ (arg.field_name = "years_of_experience"
              /\ arg.field_placeholder = "") => val = "5"

\* years_of_experience resolved to "5" for a text control, whose type default
\* is another literal.
C7_Witness ==
    /\ ResolverDone
    /\ arg.field_name = "years_of_experience"
    /\ arg.field_placeholder = ""
    /\ arg.field_type = "text"
    /\ val = "5"

SelectDone == pc = "done" /\ op = "fill_select_field"

SelectKeywordSet == {"yes", "available", "immediate", "bachelor", "5+"}

\* The positions (from 1) of the options whose text contains a keyword.
MatchingOptions(f) ==
    {k \in 1..Len(f.options) : HasPhrase(SelectKeywordSet, f.options[k])}

\* The dropdown received exactly one selection, of the option at position k.
SelectedExactly(f, k) ==
    /\ f.selected = k - 1
    /\ f.log = <<[m |-> "select", x |-> f.options[k]]>>

\* C8: for a dropdown with at least two options of which one contains a
\* keyword, fill_select_field selects the first such option, and so not the
\* option at index 1 unless that one is the first match.
C8_KeywordPreference ==
    (SelectDone /\ page[1].raises = {} /\ Len(page[1].options) >= 2
       /\ MatchingOptions(page[1]) # {}) =>
        /\ ret = TRUE
        /\ SelectedExactly(page[1], FirstOf(MatchingOptions(page[1])))
        /\ page[1].selected = 1 => 2 \in MatchingOptions(page[1])

\* "Yes, immediately available" was chosen out of the three options.
C8_Witness ==
    /\ SelectDone
    /\ page[1].options = <<"Select...", "No", "Yes, immediately available">>
    /\ ret = TRUE
    /\ page[1].selected = 2

\* C9 as stated: whatever the number of options, the first option with a
\* keyword is selected when there is one; else the option at index 1 when
\* there is more than one option; else the call fails and selects nothing.
C9_AsStated ==
    (SelectDone /\ page[1].raises = {}) =>
        IF MatchingOptions(page[1]) # {}
        THEN ret = TRUE
             /\ SelectedExactly(page[1], FirstOf(MatchingOptions(page[1])))
        ELSE IF Len(page[1].options) > 1
        THEN ret = TRUE /\ SelectedExactly(page[1], 2)
        ELSE ret = FALSE /\ page[1].log = <<>>

\* C9 amended: with more than one option, the first option with a keyword is
\* selected when there is one and the option at index 1 otherwise; with zero
\* or one option the call fails and selects nothing, also when the only
\* option contains a keyword.
C9_ResolutionRule ==
    (SelectDone /\ page[1].raises = {}) =>
        IF Len(page[1].options) <= 1
        THEN ret = FALSE /\ page[1].log = <<>> /\ page[1].selected = 0
        ELSE IF MatchingOptions(page[1]) # {}
        THEN ret = TRUE
             /\ SelectedExactly(page[1], FirstOf(MatchingOptions(page[1])))
        ELSE ret = TRUE /\ SelectedExactly(page[1], 2)

\* A dropdown whose only option contains a keyword was left alone.
C9_Witness ==
    /\ SelectDone
    /\ page[1].raises = {}
    /\ Len(page[1].options) = 1
    /\ MatchingOptions(page[1]) = {1}
    /\ ret = FALSE
    /\ page[1].log = <<>>

DetectDone == pc = "done" /\ op = "detect_application_system"

VendorOrder == <<"workday", "lever", "greenhouse", "bamboo">>

\* The positions in VendorOrder of the vendors named in the text.
VendorsNamed(text) ==
    {k \in 1..Len(VendorOrder) : Contains(VendorOrder[k], Lower(text))}

\* C10: detect_application_system returns the first vendor, in the order
\* workday, lever, greenhouse, bamboo, named in the lower-cased URL; only when
\* the URL names none, the first one named in the lower-cased markup.
C10_VendorPriority ==
    (DetectDone /\ driver_raises = {}) =>
        /\ VendorsNamed(current_url) # {} =>
              val = VendorOrder[FirstOf(VendorsNamed(current_url))]
        /\ (VendorsNamed(current_url) = {} /\ VendorsNamed(page_source) # {}) =>
              val = VendorOrder[FirstOf(VendorsNamed(page_source))]

\* The URL names bamboo only, the markup names workday, and bamboo won.
C10_Witness ==
    /\ DetectDone
    /\ driver_raises = {}
    /\ VendorsNamed(current_url) = {4}
    /\ 1 \in VendorsNamed(page_source)
    /\ val = "bamboo"

SystemTypes ==
    {"workday", "lever", "greenhouse", "bamboo", "generic", "unknown"}

FormKeywordSet ==
    {"form", "application", "apply", "submit", "upload", "resume",
     "cover letter"}

\* The keywords that occur in the lower-cased text.
KeywordsPresent(text) == {w \in FormKeywordSet : Contains(w, Lower(text))}

\* The number of elements of the tag in dom.
CountTag(dom, tag) == Cardinality({i \in 1..Len(dom) : dom[i].tag = tag})

\* The form heuristic over a text and a page the driver answers for.
LooksLikeForm(text, dom) ==
    \/ Cardinality(KeywordsPresent(text)) >= 3
    \/ CountTag(dom, "form") >= 1
    \/ CountTag(dom, "input") > 5

\* C11: detect_application_system returns one of workday, lever, greenhouse,
\* bamboo, generic, unknown whatever driver call fails, no exception escapes;
\* a failing read of the URL or of the page source gives unknown; when
\* neither URL nor markup names a vendor the result is generic if the form
\* heuristic holds and unknown otherwise, and a failing element query of the
\* heuristic gives unknown.
C11_DetectNeverRaises ==
    DetectDone =>
        /\ val \in SystemTypes
        /\ val # Raised
        /\ driver_raises \cap {"current_url", "page_source"} # {} =>
              val = "unknown"
        /\ (/\ driver_raises \cap {"current_url", "page_source"} = {}
            /\ VendorsNamed(current_url) = {}
            /\ VendorsNamed(page_source) = {}) =>
              IF "find_elements" \in driver_raises THEN val = "unknown"
              ELSE val = IF LooksLikeForm(page_source, page) THEN "generic"
                         ELSE "unknown"

\* Reading the page source failed on a URL that names a vendor, and the
\* result was unknown.
C11_Witness ==
    /\ DetectDone
    /\ driver_raises = {"page_source"}
    /\ VendorsNamed(current_url) # {}
    /\ val = "unknown"

\* The element query of the heuristic failed on a page with a form element
\* and no vendor name, and the result was unknown.
C11_LookupFailureWitness ==
    /\ DetectDone
    /\ driver_raises = {"find_elements"}
    /\ VendorsNamed(current_url) = {}
    /\ VendorsNamed(page_source) = {}
    /\ CountTag(page, "form") = 1
    /\ val = "unknown"

FormPatternsDone == pc = "done" /\ op = "detect_form_patterns"

\* C12: when the driver answers, detect_form_patterns returns true exactly
\* when at least 3 of the 7 keywords occur in the lower-cased page text, or a
\* form element exists, or more than 5 input elements exist: true with 3
\* keywords and no form or input element, true with no keyword and 6 inputs,
\* false with at most 2 keywords, no form element and at most 5 inputs.
C12_FormHeuristic ==
    (FormPatternsDone /\ driver_raises = {}) =>
        /\ ret = LooksLikeForm(page_source, page)
        /\ (Cardinality(KeywordsPresent(page_source)) = 3 /\ page = <<>>) =>
              ret = TRUE
        /\ (KeywordsPresent(page_source) = {} /\ CountTag(page, "form") = 0
              /\ CountTag(page, "input") = 6) => ret = TRUE
        /\ (Cardinality(KeywordsPresent(page_source)) <= 2
              /\ CountTag(page, "form") = 0
              /\ CountTag(page, "input") <= 5) => ret = FALSE

\* Three different keywords on a page without elements gave true.
C12_Witness ==
    /\ FormPatternsDone
    /\ driver_raises = {}
    /\ Cardinality(KeywordsPresent(page_source)) = 3
    /\ page = <<>>
    /\ ret = TRUE

\* No keyword, no form element and five inputs among seven elements gave
\* false.
C12_FiveInputsWitness ==
    /\ FormPatternsDone
    /\ driver_raises = {}
    /\ KeywordsPresent(page_source) = {}
    /\ CountTag(page, "input") = 5
    /\ Len(page) = 7
    /\ ret = FALSE

LocatorDone == pc = "done" /\ op = "find_fields_by_selectors"

\* The positions of dom in document order.
Positions(dom) == [i \in 1..Len(dom) |-> i]

\* Whether the browser accepts the selector and the element matches it.
Selects(sel, e) == sel.rel # "invalid" /\ Matches(sel, e)

\* Whether a visibility / enabledness check made on e raises: is_enabled is
\* only asked of an element that answered to be displayed.
CheckRaises(e) ==
    \/ "is_displayed" \in e.raises
    \/ e.displayed /\ "is_enabled" \in e.raises

\* The visible and enabled matches of selector sel, in document order.
VisibleEnabledMatches(sel, dom) ==
    SelectSeq(Positions(dom),
              LAMBDA i : Selects(sel, dom[i]) /\ dom[i].displayed
                            /\ dom[i].enabled)

\* The concatenation of F[1], ..., F[k].
RECURSIVE Flatten(_, _)
Flatten(F, k) == IF k = 0 THEN <<>> ELSE Flatten(F, k - 1) \o F[k]

\* How often x occurs in the sequence s.
Occurrences(s, x) == Cardinality({k \in 1..Len(s) : s[k] = x})

\* C13: when no call raises, find_fields_by_selectors returns, in selector
\* order, the visible and enabled matches of each selector, without
\* de-duplication: a visible enabled control matched by k selectors of the
\* list occurs k times, a hidden or disabled control never occurs.
C13_LocatorResult ==
    (LocatorDone /\ driver_raises = {}
       /\ \A i \in 1..Len(page) : page[i].raises = {}) =>
        /\ mapped_fields =
              Flatten([k \in 1..Len(arg.selectors) |->
                          VisibleEnabledMatches(arg.selectors[k], page)],
                      Len(arg.selectors))
        /\ \A i \in 1..Len(page) :
              Occurrences(mapped_fields, i) =
                 IF page[i].displayed /\ page[i].enabled
                 THEN Cardinality({k \in 1..Len(arg.selectors) :
                                      Selects(arg.selectors[k], page[i])})
                 ELSE 0

\* A visible enabled file input matched by three selectors was returned
\* three times, next to a disabled one that was not returned.
C13_Witness ==
    /\ LocatorDone
    /\ driver_raises = {}
    /\ Len(page) = 2
    /\ page[1].raises = {} /\ page[1].displayed /\ ~page[1].enabled
    /\ page[2].raises = {} /\ page[2].displayed /\ page[2].enabled
    /\ mapped_fields = <<2, 2, 2>>

\* Whether selector sel fails on dom: its query raises, or a check of one of
\* its matches raises.
SelectorFails(sel, dom, raises) ==
    \/ "find_elements" \in raises
    \/ sel.rel = "invalid"
    \/ \E i \in 1..Len(dom) : Selects(sel, dom[i]) /\ CheckRaises(dom[i])

\* The matches of sel that precede its first match with a raising check.
BeforeFirstRaise(sel, dom) ==
    LET raising == {i \in 1..Len(dom) :
                       Selects(sel, dom[i]) /\ CheckRaises(dom[i])}
    IN  SelectSeq(VisibleEnabledMatches(sel, dom),
                  LAMBDA i : \A j \in raising : i < j)

\* C14 as stated: a selector whose query or whose check of a match raises
\* contributes no control; every other selector of the list contributes its
\* visible and enabled matches.
C14_AsStated ==
    LocatorDone =>
        mapped_fields =
           Flatten([k \in 1..Len(arg.selectors) |->
                       IF SelectorFails(arg.selectors[k], page, driver_raises)
                       THEN <<>>
                       ELSE VisibleEnabledMatches(arg.selectors[k], page)],
                   Len(arg.selectors))

\* C14 amended: a selector whose query raises contributes no control; a
\* selector with a match whose visibility / enabledness check raises
\* contributes its visible and enabled matches that precede that match;
\* every other selector of the list, before or after a failing one,
\* contributes its visible and enabled matches.
C14_LocatorErrorIsolation ==
    LocatorDone =>
        mapped_fields =
           Flatten([k \in 1..Len(arg.selectors) |->
                       IF "find_elements" \in driver_raises
                          \/ arg.selectors[k].rel = "invalid"
                       THEN <<>>
                       ELSE BeforeFirstRaise(arg.selectors[k], page)],
                   Len(arg.selectors))

\* The first selector was rejected by the browser, the second one matched a
\* button collected before the check of the next button raised, and the
\* third one collected the first button again.
C14_Witness ==
    /\ LocatorDone
    /\ driver_raises = {}
    /\ arg.selectors[1].rel = "invalid"
    /\ Len(page) = 2
    /\ page[1].tag = "button" /\ page[1].raises = {}
    /\ page[2].tag = "button" /\ CheckRaises(page[2])
    /\ mapped_fields = <<1, 1>>

BoundaryDone == pc = "done" /\ op \in ControlOperations

\* C15: whatever driver or element call fails, a public operation of
\* ExternalFormMapper returns to its caller; no exception escapes it.
C15_NoExceptionEscapes == BoundaryDone => val = Returned

\* The operations other than human_type return whatever call fails.
C15_HandledOperationsReturn ==
    (BoundaryDone /\ op # "human_type") => val = Returned

\* How often element e was filled: typed into, or given a selection.
Fillings(e) ==
    Cardinality({k \in 1..Len(e.log) : e.log[k].m \in {"send_keys", "select"}})

\* C16: during one fill_application_form pass no control is filled more than
\* once.
C16_FillOnce ==
    op = "fill_application_form" =>
        \A i \in 1..Len(page) : Fillings(page[i]) <= 1

\* Before the cover-letter step of fill_application_form no control is
\* filled more than once.
C16_FillOnceBeforeCoverLetter ==
    (op = "fill_application_form" /\ pc \in {"map", "basic", "upload",
                                             "questions", "cover"}) =>
        \A i \in 1..Len(page) : Fillings(page[i]) <= 1

MapperDone == op = "map_form_fields" /\ pc = "basic"

FieldKinds ==
    {"name_fields", "email_fields", "phone_fields", "resume_upload",
     "submit_button"}

\* The controls in the candidate list of the kind.
Candidates(kind) == {mapped_fields[kind][k] : k \in 1..Len(mapped_fields[kind])}

\* C17: in the mapping returned by map_form_fields no control is in the
\* candidate lists of two different kinds.
C17_ExclusiveClassification ==
    MapperDone =>
        \A k1 \in FieldKinds, k2 \in FieldKinds :
            k1 # k2 => Candidates(k1) \cap Candidates(k2) = {}

BasicDone == op = "fill_basic_fields" /\ pc = "upload"

\* The three loops one after the other leave the page fill_basic_fields as
\* a whole leaves.
BasicLoopsAgree ==
    BasicDone =>
        page = FillBasicFields(arg.page, mapped_fields, arg.profile_data)

\* The kind whose loop runs at each position of fill_basic_fields.
KindAt ==
    [basic |-> "name_fields", basic_email |-> "email_fields",
     basic_phone |-> "phone_fields"]

\* The candidates of the list that the loop may touch on dom: the first one,
\* in list order, whose value is empty, if there is one.
FirstEmptyCandidate(list, dom) ==
    LET empty == {k \in 1..Len(list) : ~Truthy(dom[list[k]].value)}
    IN  IF empty = {} THEN {} ELSE {list[FirstOf(empty)]}

\* C18: the loop of fill_basic_fields for a kind changes at most one control,
\* and only the first candidate, in locator order, whose value is empty when
\* the loop starts; no other candidate is touched, also when filling that
\* candidate fails or resolves no value.
C18_FirstEmptyCandidateOnly ==
    [][(op = "fill_basic_fields" /\ pc \in DOMAIN KindAt) =>
          LET touched == {i \in 1..Len(page) : page'[i] # page[i]}
          IN  /\ Cardinality(touched) <= 1
              /\ touched \subseteq
                    FirstEmptyCandidate(mapped_fields[KindAt[pc]], page)]_vars

\* The first email candidate was cleared, typing into it failed, and the
\* empty second candidate was left alone.
C18_Witness ==
    /\ BasicDone
    /\ Len(mapped_fields.email_fields) >= 2
    /\ LET first == mapped_fields.email_fields[1]
           last == mapped_fields.email_fields[Len(mapped_fields.email_fields)]
       IN  /\ first # last
           /\ page[first].log = <<Call("clear", "")>>
           /\ ~Truthy(page[last].value)
           /\ page[last].log = <<>>

\* The kinds fill_basic_fields fills, each with the kind of value it asks
\* for.
BasicKinds ==
    {<<"name_fields", "name">>, <<"email_fields", "email">>,
     <<"phone_fields", "phone">>}

\* C19: an error raised by a candidate of one kind affects only that
\* control: when fill_basic_fields has ended, every kind with a value in the
\* profile whose candidates all work, one of them empty at the start, has had
\* a candidate touched.
C19_PerFieldRecovery ==
    BasicDone =>
        \A kv \in BasicKinds :
            LET list == mapped_fields[kv[1]]
            IN  (/\ Truthy(GetFieldValue(kv[2], arg.profile_data))
                 /\ \A k \in 1..Len(list) : page[list[k]].raises = {}
                 /\ \E k \in 1..Len(list) : ~Truthy(arg.page[list[k]].value))
                => \E k \in 1..Len(list) : page[list[k]].log # <<>>

\* C19 restricted to the passes in which no get_attribute call raises.
C19_WithoutValueReadErrors ==
    (BasicDone /\ \A i \in 1..Len(page) : "get_attribute" \notin page[i].raises)
        => \A kv \in BasicKinds :
            LET list == mapped_fields[kv[1]]
            IN  (/\ Truthy(GetFieldValue(kv[2], arg.profile_data))
                 /\ \A k \in 1..Len(list) : page[list[k]].raises = {}
                 /\ \E k \in 1..Len(list) : ~Truthy(arg.page[list[k]].value))
                => \E k \in 1..Len(list) : page[list[k]].log # <<>>

\* Element e, as it was when the fill started, is a dropdown the
\* additional-question step fills.
FillableDropdown(e) ==
    /\ e.tag = "select"
    /\ e.displayed /\ e.enabled /\ e.raises = {}
    /\ ~Truthy(e.value)
    /\ HasPhrase({"availability"}, PyOr(e.name, ""))
    /\ Len(e.options) > 1

\* A step of fill_application_form met an environment error: the value read
\* of a basic-field candidate raised, or clearing the cover-letter textarea
\* raised.
StepErrors ==
    {i \in 1..Len(arg.page) :
        \/ arg.page[i].tag = "input" /\ "get_attribute" \in arg.page[i].raises
        \/ arg.page[i].tag = "textarea" /\ "clear" \in arg.page[i].raises}

\* C20: when fill_application_form has ended, submission was attempted if and
\* only if the upload succeeded; whatever error the basic-field, the
\* additional-question or the cover-letter step met, the upload was made on a
\* located working upload control, a fillable dropdown was given a selection,
\* and an enabled working submit candidate was clicked when the upload
\* succeeded.
C20_StepIndependence ==
    (op = "fill_application_form" /\ pc = "done") =>
        /\ locals.submit_invoked <=> locals.resume_uploaded
        /\ (/\ mapped_fields.resume_upload # <<>>
            /\ "send_keys" \notin page[mapped_fields.resume_upload[1]].raises)
              => locals.resume_uploaded
        /\ \A i \in 1..Len(page) :
              FillableDropdown(arg.page[i]) => page[i].log # <<>>
        /\ (/\ locals.resume_uploaded
            /\ \E k \in 1..Len(mapped_fields.submit_button) :
                  LET b == page[mapped_fields.submit_button[k]]
                  IN  b.enabled /\ b.raises = {})
              => \E i \in 1..Len(page) : Clicked(page[i])

\* The value read of the email input raised, clearing the cover-letter
\* textarea raised, and the fill went on to upload, select and submit.
C20_Witness ==
    /\ op = "fill_application_form"
    /\ pc = "done"
    /\ \E i \in StepErrors : arg.page[i].tag = "input"
    /\ \E i \in StepErrors : arg.page[i].tag = "textarea"
    /\ locals.resume_uploaded
    /\ locals.submit_invoked
    /\ ~locals.cover_letter_added
    /\ \E i \in 1..Len(page) : page[i].tag = "select" /\ page[i].log # <<>>
    /\ \E i \in 1..Len(page) : Clicked(page[i])
    /\ ret = TRUE

SubmitDone == op = "submit_form" /\ pc = "done"

\* The candidates that answer to be enabled.
EnabledCandidates ==
    {i \in 1..Len(page) : "is_enabled" \notin page[i].raises /\ page[i].enabled}

\* The candidates that received a click() call, and those whose click went
\* through.
ClickAttempts == {i \in 1..Len(page) : ClickAttempted(page[i])}

ClicksThrough == {i \in 1..Len(page) : Clicked(page[i])}

\* C21 as stated: at most one candidate receives a click, the first enabled
\* one, also when that click raises; with no enabled candidate submit_form
\* returns false without clicking.
C21_AsStated ==
    SubmitDone =>
        /\ Cardinality(ClickAttempts) <= 1
        /\ ClickAttempts \subseteq EnabledCandidates
        /\ \A i \in ClickAttempts : i = FirstOf(EnabledCandidates)
        /\ EnabledCandidates = {} => ret = FALSE /\ ClickAttempts = {}

\* C21 amended: submit_form clicks the enabled candidates in order until a
\* click goes through: at most one click goes through, disabled candidates
\* are never clicked, no candidate after the one whose click went through is
\* clicked whatever the outcome check reports, every enabled candidate
\* before it received a click that raised, and with no enabled candidate, or
\* none whose click goes through, submit_form returns false.
C21_ClicksUntilOneGoesThrough ==
    SubmitDone =>
        LET working == {i \in EnabledCandidates : "click" \notin page[i].raises}
        IN  /\ Cardinality(ClicksThrough) <= 1
            /\ ClickAttempts \subseteq EnabledCandidates
            /\ IF working = {}
               THEN /\ ClickAttempts = EnabledCandidates
                    /\ ClicksThrough = {}
                    /\ ret = FALSE
               ELSE /\ ClicksThrough = {FirstOf(working)}
                    /\ ClickAttempts =
                          {i \in EnabledCandidates : i <= FirstOf(working)}
                    /\ ret = (driver_raises = {}
                                /\ (HasPhrase(SuccessPhrases, post_source)
                                      \/ ~HasPhrase(ErrorPhrases, post_source)))
            /\ \A i \in 1..Len(page) : Len(page[i].log) <= 1

\* The click of the first enabled candidate raised, the second enabled
\* candidate was clicked, and the third one was left alone.
C21_Witness ==
    /\ SubmitDone
    /\ Len(page) = 3
    /\ EnabledCandidates = {1, 2, 3}
    /\ page[1].log = <<Call("click", "raised")>>
    /\ Clicked(page[2])
    /\ page[3].log = <<>>
    /\ ret = TRUE

QuestionsDone == op = "fill_additional_questions" /\ pc = "cover"

\* No value resolves for element e: no keyword rule hits its name (or id) and
\* placeholder, and its type has no default.
NoValueFor(e) ==
    /\ RulesHit([field_name |-> PyOr(PyOr(e.name, e.id), ""),
                 field_placeholder |-> PyOr(e.placeholder, "")]) = {}
    /\ TypeDefault(e.type) = None

\* C22: a control should_fill_additional_field accepted and for which no
\* value resolves is left as it was, neither cleared nor typed into, and is
\* not counted: the number of fields filled is the number of controls typed
\* into, and the working controls with a value to resolve, before and after
\* it, are filled.
C22_UnresolvedControlUntouched ==
    (QuestionsDone /\ driver_raises = {}) =>
        /\ \A i \in 1..Len(page) :
              (/\ ShouldFillAdditionalField(arg.page[i])
               /\ arg.page[i].tag # "select"
               /\ NoValueFor(arg.page[i])) => page[i] = arg.page[i]
        /\ locals.questions_filled =
              Cardinality({i \in 1..Len(page) : Fillings(page[i]) > 0})
        /\ \A i \in 1..Len(page) :
              (/\ ShouldFillAdditionalField(arg.page[i])
               /\ arg.page[i].raises = {}
               /\ ~NoValueFor(arg.page[i])) => Fillings(page[i]) = 1

\* An accepted telephone input without a value to resolve was left alone
\* between two text inputs that were filled; two fields were counted.
C22_Witness ==
    /\ QuestionsDone
    /\ driver_raises = {}
    /\ Len(page) = 3
    /\ page[2].type = "tel"
    /\ ShouldFillAdditionalField(arg.page[2])
    /\ page[2] = arg.page[2]
    /\ page[1].value = "See resume for details"
    /\ page[3].value = "See resume for details"
    /\ locals.questions_filled = 2

HandlerReturned == op = "handle_application_form" /\ pc = "returned"

\* C23: in one call of handle_application_form the external application
\* path is not executed once is_linkedin_easy_apply returned true and
\* handle_linkedin_easy_apply ran.
C23_ExternalOnlyWhenNotEasyApply ==
    (op = "handle_application_form" /\ locals.easy_apply_ran) =>
        ~locals.external_ran

\* The state the claim excludes: the Easy Apply submit button was clicked,
\* the outcome check reported failure, and the external path then ran and
\* clicked the external application link.
C23_ExternalAfterSubmitClicked ==
    /\ HandlerReturned
    /\ locals.easy_apply_ran
    /\ locals.submit_invoked
    /\ locals.external_ran
    /\ \E i \in 1..Len(page) : page[i].tag = "button" /\ Clicked(page[i])
                                /\ page[i].aria_label = "Submit application"
    /\ \E i \in 1..Len(page) : page[i].tag = "a" /\ Clicked(page[i])

\* C28: after every return of handle_application_form, over any sequence of
\* calls on a handler that started without temp files, temp_files is empty
\* and every temporary resume file that came to exist has been handed to
\* os.remove.
C28_TempFilesCleaned ==
    HandlerReturned =>
        /\ locals.temp_files = <<>>
        /\ locals.created \subseteq locals.removed

\* What does hold after every return: the list is empty, and every file
\* the list held was handed to os.remove.
C28_ListEmptyAfterReturn ==
    HandlerReturned =>
        /\ locals.temp_files = <<>>
        /\ locals.removed \subseteq locals.created

\* C29: handle_application_form returns true only after the apply button
\* was clicked, an Easy Apply form was detected, the resume upload succeeded
\* and submit_easy_apply returned true; a call that went through the
\* external application path returns false.
C29_SuccessOnlyThroughEasyApply ==
    HandlerReturned =>
        /\ ret = TRUE =>
              /\ locals.apply_clicked
              /\ locals.easy_apply_detected
              /\ locals.easy_apply_ran
              /\ locals.resume_uploaded
              /\ locals.submit_invoked
              /\ locals.submit_result
              /\ \E i \in 1..Len(page) :
                    /\ page[i].aria_label = "Submit application"
                    /\ Clicked(page[i])
        /\ locals.external_ran => ret = FALSE

\* A call returned true: the apply button and the Easy Apply submit button
\* were clicked and the page reports the application as submitted.
C29_Witness ==
    /\ HandlerReturned
    /\ ret = TRUE
    /\ locals.submit_result
    /\ ~locals.external_ran
    /\ Clicked(page[1])
    /\ page_source = "<h1>Application submitted</h1>"

\* A call went through the external path with a working screenshot, on an
\* external site, and returned false.
C29_ExternalWitness ==
    /\ HandlerReturned
    /\ locals.external_ran
    /\ ~Contains("linkedin.com", current_url)
    /\ driver_raises = {}
    /\ ret = FALSE

\* C26: for every control, LinkedInApplicationHandler.should_fill_field
\* gives the decision ExternalFormMapper.should_fill_additional_field gave.
C26_ClassifiersAgree ==
    ClassifierDone => ret = ShouldFillField(page[1])

\* Where the two copies do agree: on every control that is not displayed,
\* not enabled, valued, marked required or of a relevant type, and on the
\* controls whose name (or id) and placeholder contain none of the keywords
\* of either copy.
C26_AgreeOutsideKeywords ==
    (/\ ClassifierDone
     /\ \/ ~page[1].displayed
        \/ ~page[1].enabled
        \/ page[1].raises # {}
        \/ Truthy(page[1].value)
        \/ Truthy(PyOr(page[1].required, page[1].aria_required))
        \/ InList(page[1].type, relevant_types)
        \/ /\ ~ContainsAny(relevant_names, Lower(FieldName(page[1])))
           /\ ~ContainsAny(relevant_names, Lower(FieldPlaceholder(page[1])))
           /\ ~ContainsAny(easy_apply_relevant_names,
                           Lower(FieldName(page[1]))))
        => ret = ShouldFillField(page[1])

InSession == op = "run_job_search_session"

\* Whether a step calls apply_to_job.
ApplyToJobCalled == Len(locals'.apply_calls) > Len(locals.apply_calls)

\* C24: the number of successful applications (the count of the loop and
\* the entries of jobs_applied) never exceeds max_applications_per_session,
\* and every call of apply_to_job is made while the count is below the
\* limit.
C24_SessionCap ==
    /\ [](InSession =>
            /\ locals.applications_count <= arg.max_applications
            /\ Len(locals.jobs_applied) = locals.applications_count)
    /\ [][(InSession /\ ApplyToJobCalled) =>
            locals.applications_count < arg.max_applications]_vars

\* The limit of 2 was reached after a failed and two successful
\* applications and the loop was left with jobs remaining.
C24_Witness ==
    /\ InSession
    /\ pc = "save"
    /\ arg.max_applications = 2
    /\ locals.applications_count = 2
    /\ Len(locals.apply_calls) = 3
    /\ locals.index <= Len(locals.sorted_jobs)

\* Whether no value occurs twice in the sequence s.
NoRepeats(s) == \A i, j \in 1..Len(s) : s[i] = s[j] => i = j

\* C25: take_break is called once for every positive multiple of
\* break_interval the count reaches, never twice at the same count.
C25_OneBreakPerMultiple ==
    InSession =>
        /\ NoRepeats(locals.breaks)
        /\ \A k \in 1..Len(locals.breaks) : BreakDue(locals.breaks[k])

\* What does hold: take_break is called only at positive multiples of
\* break_interval, and at most once per call of apply_to_job.
C25_BreaksOnlyAtMultiples ==
    InSession =>
        /\ \A k \in 1..Len(locals.breaks) : BreakDue(locals.breaks[k])
        /\ Len(locals.breaks) <= Len(locals.apply_calls)

\* C27: apply_to_job is called at most once per job_id and jobs_applied
\* holds no two entries with the same job_id, whatever the searches found
\* twice.
C27_NoJobTwice ==
    InSession =>
        /\ NoRepeats(locals.apply_calls)
        /\ NoRepeats([k \in 1..Len(locals.jobs_applied) |->
                         locals.jobs_applied[k].job_id])
        /\ NoRepeats([k \in 1..Len(locals.sorted_jobs) |->
                         locals.sorted_jobs[k].job_id])

\* The second search found a job of the first search again, and the
\* session applied to it and to another job, once each.
C27_Witness ==
    /\ InSession
    /\ pc = "done"
    /\ Len(locals.all_jobs) > Len(locals.sorted_jobs)
    /\ Len(locals.jobs_applied) = 2
    /\ \E k \in 1..2 : locals.jobs_applied[k].job_id = 1
    /\ Len(locals.apply_calls) = 2

\* C30: a session whose setup_driver started a browser calls driver.quit()
\* in the end, exactly once, whichever step failed, never without a browser
\* and never followed by another use of the browser.
C30_DriverReleased ==
    /\ [](InSession =>
            /\ locals.quit_calls <= 1
            /\ ~locals.after_quit
            /\ locals.quit_calls = 1 => locals.created
            /\ pc = "done" => locals.quit_calls = (IF locals.created THEN 1
                                                   ELSE 0))
    /\ (InSession /\ locals.created) ~> (locals.quit_calls = 1)

\* The browser was released after execute_script failed in setup_driver.
C30_Witness ==
    /\ InSession
    /\ pc = "done"
    /\ locals.created
    /\ locals.quit_calls = 1
    /\ locals.all_jobs = <<>>
    /\ locals.apply_calls = <<>>

\* The browser was released after a session that applied and whose results
\* could not be saved.
C30_SaveFailureWitness ==
    /\ InSession
    /\ pc = "done"
    /\ locals.quit_calls = 1
    /\ Len(locals.jobs_applied) > 0
    /\ ~locals.saved
    /\ arg.delays_configured
====
